---- MODULE Spec2Model ----
(***************************************************************************)
(* touch-server (src/touch-server/src/main.rs): the UDP receive loop of    *)
(* main, the binary codec, the reliable-message window, the heartbeat and  *)
(* the InputState machine that turns messages into enigo calls.            *)
(*                                                                         *)
(* Conventions                                                             *)
(*  - a byte buffer is a sequence of 0..255; Rust's buf[i] is buf[i+1];    *)
(*  - a String is the sequence of its Unicode code points;                 *)
(*  - an f32 is an integer number of 1/FUnit (FUnit = 2^10 * 5^4): every   *)
(*    f32 that is a multiple of 2^-10 with magnitude below 2048 is exact;  *)
(*    NaN, infinities and larger magnitudes are outside the modelled range;*)
(*  - time is counted in units of half a second.                           *)
(***************************************************************************)
EXTENDS Integers, Sequences, FiniteSets, TLC

\* ------------------------------------------------------------------ Option
None == [some |-> FALSE]
Some(v) == [some |-> TRUE, v |-> v]

\* --------------------------------------------------------------- constants
HEARTBEAT_TIMEOUT_SECS == 3
SKILL_MOUSE_RADIUS == 800
MAX_PROCESSED_SEQS == 100

MSG_JOYSTICK == 1
MSG_BUTTON == 2
MSG_SKILL_START == 3
MSG_SKILL_DRAG == 4
MSG_SKILL_RELEASE == 5
MSG_SKILL_CANCEL == 6
MSG_PING == 7
MSG_PONG == 8
MSG_ACK == 9
MSG_RELIABLE_BUTTON == 18
MSG_RELIABLE_SKILL_RELEASE == 21
MSG_RELIABLE_SKILL_CANCEL == 22
MAGIC == 171

\* ------------------------------------------------------------- fixed point
FUnit == 1024 * 625
\* 0.2f32 lies strictly between 204/1024 and 205/1024, so for the modelled
\* values x < DEADZONE, x > DEADZONE compare as in the code.
DEADZONE == FUnit \div 5
\* 0.4 = 2/5: x * SMOOTH_FACTOR is (x * SmoothNum) \div SmoothDen.
SmoothNum == 2
SmoothDen == 5

Abs(n) == IF n < 0 THEN 0 - n ELSE n

\* `v as i32` for an f32 v: truncation toward zero.
as_i32(v) == IF v < 0 THEN 0 - ((0 - v) \div FUnit) ELSE v \div FUnit

\* `n as f32` for an i32 n (exact below 2^24).
as_f32(n) == n * FUnit

\* f32 * (SKILL_MOUSE_RADIUS as f32)
mul_radius(v) == v * SKILL_MOUSE_RADIUS

\* f32::from_le_bytes([b0, b1, b2, b3]): IEEE-754 binary32.
f32_from_le_bytes(b0, b1, b2, b3) ==
    LET sign == b3 \div 128
        exp  == (b3 % 128) * 2 + (b2 \div 128)
        mant == (b2 % 128) * 65536 + b1 * 256 + b0
        sig  == 8388608 + mant
        \* |value| = sig * 2^(exp - 150); in units of 2^-10: sig * 2^(exp - 140)
        mag  == IF exp = 0 \/ 140 - exp > 24 THEN 0 ELSE sig \div (2 ^ (140 - exp))
    IN  IF sign = 1 THEN 0 - mag * 625 ELSE mag * 625

\* u32::from_le_bytes / u32::to_le_bytes (values below 2^31 in the model).
\* variant: the four bytes read most significant first
u32_from_be_bytes(b0, b1, b2, b3) == b3 + 256 * b2 + 65536 * b1 + 16777216 * b0

u32_from_le_bytes(b0, b1, b2, b3) == b0 + 256 * b1 + 65536 * b2 + 16777216 * b3
u32_to_le_bytes(n) ==
    << n % 256, (n \div 256) % 256, (n \div 65536) % 256, (n \div 16777216) % 256 >>

\* u64::from_le_bytes / u64::to_le_bytes (values below 2^31 in the model:
\* the four high bytes are zero).
u64_from_le_bytes(bs) ==
    bs[1] + 256 * bs[2] + 65536 * bs[3] + 16777216 * bs[4]
      + ((bs[5] + 256 * bs[6] + 65536 * bs[7] + 16777216 * bs[8]) * 65536) * 65536
u64_to_le_bytes(n) == u32_to_le_bytes(n) \o << 0, 0, 0, 0 >>

\* ----------------------------------------------------------------- strings
\* (b as char).to_string(): the code point U+00bb.
char_to_string(b) == << b >>

\* String::from_utf8_lossy: ASCII and two-byte sequences decode, every other
\* byte becomes U+FFFD (three- and four-byte sequences are not modelled).
RECURSIVE from_utf8_lossy(_)
from_utf8_lossy(bytes) ==
    IF bytes = << >> THEN << >>
    ELSE LET b == Head(bytes) IN
         IF b < 128 THEN << b >> \o from_utf8_lossy(Tail(bytes))
         ELSE IF /\ b >= 194 /\ b <= 223 /\ Len(bytes) >= 2
                 /\ bytes[2] >= 128 /\ bytes[2] <= 191
              THEN << (b - 192) * 64 + (bytes[2] - 128) >>
                     \o from_utf8_lossy(Tail(Tail(bytes)))
              ELSE << 65533 >> \o from_utf8_lossy(Tail(bytes))

\* char::to_lowercase for ASCII and Latin-1 letters.
lower_char(c) ==
    IF c >= 65 /\ c <= 90 THEN c + 32
    ELSE IF c >= 192 /\ c <= 222 /\ c # 215 THEN c + 32
    ELSE c

\* str::to_lowercase
to_lowercase(s) == [i \in 1..Len(s) |-> lower_char(s[i])]

\* str::len: the length in UTF-8 bytes.
RECURSIVE str_len(_)
str_len(s) ==
    IF s = << >> THEN 0
    ELSE (IF Head(s) < 128 THEN 1 ELSE IF Head(s) < 2048 THEN 2
          ELSE IF Head(s) < 65536 THEN 3 ELSE 4) + str_len(Tail(s))

\* --------------------------------------------------------------- Modifiers
NoModifiers == [shift |-> FALSE, control |-> FALSE, alt |-> FALSE, command |-> FALSE]

is_empty(m) == ~m.shift /\ ~m.control /\ ~m.alt /\ ~m.command

from_byte(b) ==
    [shift   |-> (b % 2) # 0,
     control |-> ((b \div 2) % 2) # 0,
     alt     |-> ((b \div 4) % 2) # 0,
     command |-> ((b \div 8) % 2) # 0]

\* ------------------------------------------------------------ InputMessage
Joystick(x, y) == [type |-> "Joystick", x |-> x, y |-> y]
Button(key, pressed, modifiers, seq) ==
    [type |-> "Button", key |-> key, pressed |-> pressed,
     modifiers |-> modifiers, seq |-> seq]
SkillStart(key, offset_x, offset_y, modifiers) ==
    [type |-> "SkillStart", key |-> key, offset_x |-> offset_x,
     offset_y |-> offset_y, modifiers |-> modifiers]
SkillDrag(key, dx, dy, distance, smooth) ==
    [type |-> "SkillDrag", key |-> key, dx |-> dx, dy |-> dy,
     distance |-> distance, smooth |-> smooth]
SkillRelease(key, dx, dy, seq) ==
    [type |-> "SkillRelease", key |-> key, dx |-> dx, dy |-> dy, seq |-> seq]
SkillCancel(key, seq) == [type |-> "SkillCancel", key |-> key, seq |-> seq]
Ping(timestamp) == [type |-> "Ping", timestamp |-> timestamp]

\* if modifiers.is_empty() { None } else { Some(modifiers) }
modifiers_opt(m) == IF is_empty(m) THEN None ELSE Some(m)

\* --------------------------------------------------- parse_binary_message
\* buf[i] of the Rust code
B(buf, i) == buf[i + 1]
\* &buf[from..to]
slice(buf, from, to) == SubSeq(buf, from + 1, to)

parse_button(buf) ==
    LET key_len == B(buf, 2) IN
    IF Len(buf) < 4 + key_len + 2
    THEN Some(<< Button(char_to_string(B(buf, 2)), B(buf, 3) # 0, None, None), None >>)
    ELSE Some(<< Button(from_utf8_lossy(slice(buf, 3, 3 + key_len)),
                        B(buf, 3 + key_len) # 0,
                        modifiers_opt(from_byte(B(buf, 4 + key_len))),
                        None), None >>)

parse_reliable_button(buf) ==
    LET seq == u32_from_le_bytes(B(buf, 2), B(buf, 3), B(buf, 4), B(buf, 5))
        key_len == B(buf, 6)
    IN  IF Len(buf) < 9 + key_len THEN None
        ELSE Some(<< Button(from_utf8_lossy(slice(buf, 7, 7 + key_len)),
                            B(buf, 7 + key_len) # 0,
                            modifiers_opt(from_byte(B(buf, 8 + key_len))),
                            Some(seq)), Some(seq) >>)

parse_skill_start(buf) ==
    LET key_len == B(buf, 2) IN
    IF Len(buf) < 3 + key_len + 1
    THEN Some(<< SkillStart(char_to_string(B(buf, 2)), 0, 0, None), None >>)
    ELSE Some(<< SkillStart(from_utf8_lossy(slice(buf, 3, 3 + key_len)), 0, 0,
                            modifiers_opt(from_byte(B(buf, 3 + key_len)))), None >>)

parse_skill_drag(buf) ==
    Some(<< SkillDrag(char_to_string(B(buf, 2)),
                      f32_from_le_bytes(B(buf, 3), B(buf, 4), B(buf, 5), B(buf, 6)),
                      f32_from_le_bytes(B(buf, 7), B(buf, 8), B(buf, 9), B(buf, 10)),
                      f32_from_le_bytes(B(buf, 11), B(buf, 12), B(buf, 13), B(buf, 14)),
                      IF Len(buf) > 15 THEN B(buf, 15) # 0 ELSE TRUE), None >>)

parse_skill_release(buf) ==
    Some(<< SkillRelease(char_to_string(B(buf, 2)),
                         f32_from_le_bytes(B(buf, 3), B(buf, 4), B(buf, 5), B(buf, 6)),
                         f32_from_le_bytes(B(buf, 7), B(buf, 8), B(buf, 9), B(buf, 10)),
                         None), None >>)

parse_reliable_skill_release(buf) ==
    LET seq == u32_from_le_bytes(B(buf, 2), B(buf, 3), B(buf, 4), B(buf, 5)) IN
    Some(<< SkillRelease(char_to_string(B(buf, 6)),
                         f32_from_le_bytes(B(buf, 7), B(buf, 8), B(buf, 9), B(buf, 10)),
                         f32_from_le_bytes(B(buf, 11), B(buf, 12), B(buf, 13), B(buf, 14)),
                         Some(seq)), Some(seq) >>)

parse_reliable_skill_cancel(buf) ==
    LET seq == u32_from_le_bytes(B(buf, 2), B(buf, 3), B(buf, 4), B(buf, 5)) IN
    Some(<< SkillCancel(char_to_string(B(buf, 6)), Some(seq)), Some(seq) >>)

\* variant: every type code with ten bytes is taken for a Ping
parse_binary_message_any_type(buf) ==
    IF Len(buf) < 2 \/ B(buf, 0) # MAGIC THEN None
    ELSE IF Len(buf) >= 10
         THEN Some(<< Ping(u64_from_le_bytes(slice(buf, 2, 10))), None >>)
         ELSE None

\* Option<(InputMessage, Option<u32>)>
parse_binary_message(buf) ==
    IF Len(buf) < 2 \/ B(buf, 0) # MAGIC THEN None
    ELSE LET t == B(buf, 1) IN
         IF t = MSG_JOYSTICK /\ Len(buf) >= 10
         THEN Some(<< Joystick(
                        f32_from_le_bytes(B(buf, 2), B(buf, 3), B(buf, 4), B(buf, 5)),
                        f32_from_le_bytes(B(buf, 6), B(buf, 7), B(buf, 8), B(buf, 9))),
                      None >>)
         ELSE IF t = MSG_BUTTON /\ Len(buf) >= 4 THEN parse_button(buf)
         ELSE IF t = MSG_RELIABLE_BUTTON /\ Len(buf) >= 9 THEN parse_reliable_button(buf)
         ELSE IF t = MSG_SKILL_START /\ Len(buf) >= 3 THEN parse_skill_start(buf)
         ELSE IF t = MSG_SKILL_DRAG /\ Len(buf) >= 15 THEN parse_skill_drag(buf)
         ELSE IF t = MSG_SKILL_RELEASE /\ Len(buf) >= 11 THEN parse_skill_release(buf)
         ELSE IF t = MSG_RELIABLE_SKILL_RELEASE /\ Len(buf) >= 15
              THEN parse_reliable_skill_release(buf)
         ELSE IF t = MSG_SKILL_CANCEL /\ Len(buf) >= 3
              THEN Some(<< SkillCancel(char_to_string(B(buf, 2)), None), None >>)
         ELSE IF t = MSG_RELIABLE_SKILL_CANCEL /\ Len(buf) >= 7
              THEN parse_reliable_skill_cancel(buf)
         ELSE IF t = MSG_PING /\ Len(buf) >= 10
              THEN Some(<< Ping(u64_from_le_bytes(slice(buf, 2, 10))), None >>)
         ELSE None

\* The indices of buf that parse_binary_message reads (buf[i], &buf[a..b] and
\* buf.get(i)), branch by branch.
button_reads(buf) ==
    LET key_len == B(buf, 2) IN
    IF Len(buf) < 4 + key_len + 2 THEN {2, 3}
    ELSE {2} \cup (3..(3 + key_len - 1)) \cup {3 + key_len, 4 + key_len}

\* variant: the length check is the one of the unreliable frame
reliable_button_reads_short(buf) ==
    LET key_len == B(buf, 6) IN
    IF Len(buf) < 4 + key_len + 2 THEN 2..6
    ELSE (2..6) \cup (7..(7 + key_len - 1)) \cup {7 + key_len, 8 + key_len}

reliable_button_reads(buf) ==
    LET key_len == B(buf, 6) IN
    IF Len(buf) < 9 + key_len THEN 2..6
    ELSE (2..6) \cup (7..(7 + key_len - 1)) \cup {7 + key_len, 8 + key_len}

skill_start_reads(buf) ==
    LET key_len == B(buf, 2) IN
    IF Len(buf) < 3 + key_len + 1 THEN {2}
    ELSE {2} \cup (3..(3 + key_len - 1)) \cup {3 + key_len}

indices_read(buf) ==
    IF Len(buf) < 2 THEN {}
    ELSE IF B(buf, 0) # MAGIC THEN {0}
    ELSE LET t == B(buf, 1) IN
         {0, 1} \cup
         (IF t = MSG_JOYSTICK /\ Len(buf) >= 10 THEN 2..9
          ELSE IF t = MSG_BUTTON /\ Len(buf) >= 4 THEN button_reads(buf)
          ELSE IF t = MSG_RELIABLE_BUTTON /\ Len(buf) >= 9 THEN reliable_button_reads(buf)
          ELSE IF t = MSG_SKILL_START /\ Len(buf) >= 3 THEN skill_start_reads(buf)
          ELSE IF t = MSG_SKILL_DRAG /\ Len(buf) >= 15
               THEN (2..14) \cup (IF Len(buf) > 15 THEN {15} ELSE {})
          ELSE IF t = MSG_SKILL_RELEASE /\ Len(buf) >= 11 THEN 2..10
          ELSE IF t = MSG_RELIABLE_SKILL_RELEASE /\ Len(buf) >= 15 THEN 2..14
          ELSE IF t = MSG_SKILL_CANCEL /\ Len(buf) >= 3 THEN {2}
          ELSE IF t = MSG_RELIABLE_SKILL_CANCEL /\ Len(buf) >= 7 THEN 2..6
          ELSE IF t = MSG_PING /\ Len(buf) >= 10 THEN 2..9
          ELSE {})

\* [u8; 10]
build_binary_pong(timestamp) == << MAGIC, MSG_PONG >> \o u64_to_le_bytes(timestamp)

\* [u8; 6]
build_binary_ack(seq) == << MAGIC, MSG_ACK >> \o u32_to_le_bytes(seq)

\* ---------------------------------------------------------------- monitors
\* Monitor::center
center(m) == << m.x + (m.width \div 2), m.y + (m.height \div 2) >>

\* Monitor::contains
contains(m, x, y) ==
    /\ x >= m.x /\ x < m.x + m.width
    /\ y >= m.y /\ y < m.y + m.height

\* get_current_display_center, for a display = [monitors: the result of
\* get_all_monitors, mouse: the result of get_mouse_position].
get_current_display_center(display) ==
    LET monitors == display.monitors
        hits == IF display.mouse.some
                THEN {i \in 1..Len(monitors) :
                        contains(monitors[i], display.mouse.v[1], display.mouse.v[2])}
                ELSE {}
    IN  IF hits # {}
        THEN center(monitors[CHOOSE i \in hits : \A j \in hits : i <= j])
        ELSE IF monitors # << >> THEN center(monitors[1]) ELSE << 960, 540 >>

\* --------------------------------------------------------------- parse_key
\* enigo::Key and ParsedInput
Key(name) == [name |-> name, c |-> 0]
Unicode(c) == [name |-> "Unicode", c |-> c]
KeyboardKey(name) == [kind |-> "Keyboard", key |-> Key(name)]
KeyboardUnicode(c) == [kind |-> "Keyboard", key |-> Unicode(c)]
MouseInput(action) == [kind |-> "Mouse", action |-> action]

\* the named arms of parse_key's match, one pair per string literal
named_keys ==
    {
      << << 109, 111, 117, 115, 101, 95, 108, 101, 102, 116 >>, MouseInput("Left") >>,  \* "mouse_left"
      << << 109, 111, 117, 115, 101, 95, 114, 105, 103, 104, 116 >>, MouseInput("Right") >>,  \* "mouse_right"
      << << 109, 111, 117, 115, 101, 95, 109, 105, 100, 100, 108, 101 >>, MouseInput("Middle") >>,  \* "mouse_middle"
      << << 109, 111, 117, 115, 101, 95, 98, 97, 99, 107 >>, MouseInput("Back") >>,  \* "mouse_back"
      << << 109, 111, 117, 115, 101, 95, 102, 111, 114, 119, 97, 114, 100 >>, MouseInput("Forward") >>,  \* "mouse_forward"
      << << 115, 99, 114, 111, 108, 108, 95, 117, 112 >>, MouseInput("ScrollUp") >>,  \* "scroll_up"
      << << 115, 99, 114, 111, 108, 108, 95, 100, 111, 119, 110 >>, MouseInput("ScrollDown") >>,  \* "scroll_down"
      << << 108, 115, 104, 105, 102, 116 >>, KeyboardKey("LShift") >>,  \* "lshift"
      << << 108, 99, 116, 114, 108 >>, KeyboardKey("LControl") >>,  \* "lctrl"
      << << 108, 99, 111, 110, 116, 114, 111, 108 >>, KeyboardKey("LControl") >>,  \* "lcontrol"
      << << 108, 97, 108, 116 >>, KeyboardKey("Alt") >>,  \* "lalt"
      << << 108, 99, 109, 100 >>, KeyboardKey("Meta") >>,  \* "lcmd"
      << << 108, 109, 101, 116, 97 >>, KeyboardKey("Meta") >>,  \* "lmeta"
      << << 108, 119, 105, 110 >>, KeyboardKey("Meta") >>,  \* "lwin"
      << << 114, 115, 104, 105, 102, 116 >>, KeyboardKey("RShift") >>,  \* "rshift"
      << << 114, 99, 116, 114, 108 >>, KeyboardKey("RControl") >>,  \* "rctrl"
      << << 114, 99, 111, 110, 116, 114, 111, 108 >>, KeyboardKey("RControl") >>,  \* "rcontrol"
      << << 114, 97, 108, 116 >>, KeyboardKey("Alt") >>,  \* "ralt"
      << << 114, 99, 109, 100 >>, KeyboardKey("Meta") >>,  \* "rcmd"
      << << 114, 109, 101, 116, 97 >>, KeyboardKey("Meta") >>,  \* "rmeta"
      << << 114, 119, 105, 110 >>, KeyboardKey("Meta") >>,  \* "rwin"
      << << 115, 104, 105, 102, 116 >>, KeyboardKey("Shift") >>,  \* "shift"
      << << 99, 116, 114, 108 >>, KeyboardKey("Control") >>,  \* "ctrl"
      << << 99, 111, 110, 116, 114, 111, 108 >>, KeyboardKey("Control") >>,  \* "control"
      << << 97, 108, 116 >>, KeyboardKey("Alt") >>,  \* "alt"
      << << 99, 109, 100 >>, KeyboardKey("Meta") >>,  \* "cmd"
      << << 109, 101, 116, 97 >>, KeyboardKey("Meta") >>,  \* "meta"
      << << 119, 105, 110 >>, KeyboardKey("Meta") >>,  \* "win"
      << << 115, 112, 97, 99, 101 >>, KeyboardKey("Space") >>,  \* "space"
      << << 101, 110, 116, 101, 114 >>, KeyboardKey("Return") >>,  \* "enter"
      << << 114, 101, 116, 117, 114, 110 >>, KeyboardKey("Return") >>,  \* "return"
      << << 116, 97, 98 >>, KeyboardKey("Tab") >>,  \* "tab"
      << << 101, 115, 99, 97, 112, 101 >>, KeyboardKey("Escape") >>,  \* "escape"
      << << 101, 115, 99 >>, KeyboardKey("Escape") >>,  \* "esc"
      << << 98, 97, 99, 107, 115, 112, 97, 99, 101 >>, KeyboardKey("Backspace") >>,  \* "backspace"
      << << 100, 101, 108, 101, 116, 101 >>, KeyboardKey("Delete") >>,  \* "delete"
      << << 99, 97, 112, 115, 108, 111, 99, 107 >>, KeyboardKey("CapsLock") >>,  \* "capslock"
      << << 117, 112 >>, KeyboardKey("UpArrow") >>,  \* "up"
      << << 100, 111, 119, 110 >>, KeyboardKey("DownArrow") >>,  \* "down"
      << << 108, 101, 102, 116 >>, KeyboardKey("LeftArrow") >>,  \* "left"
      << << 114, 105, 103, 104, 116 >>, KeyboardKey("RightArrow") >>,  \* "right"
      << << 104, 111, 109, 101 >>, KeyboardKey("Home") >>,  \* "home"
      << << 101, 110, 100 >>, KeyboardKey("End") >>,  \* "end"
      << << 112, 97, 103, 101, 117, 112 >>, KeyboardKey("PageUp") >>,  \* "pageup"
      << << 112, 97, 103, 101, 100, 111, 119, 110 >>, KeyboardKey("PageDown") >>,  \* "pagedown"
      << << 102, 49 >>, KeyboardKey("F1") >>,  \* "f1"
      << << 102, 50 >>, KeyboardKey("F2") >>,  \* "f2"
      << << 102, 51 >>, KeyboardKey("F3") >>,  \* "f3"
      << << 102, 52 >>, KeyboardKey("F4") >>,  \* "f4"
      << << 102, 53 >>, KeyboardKey("F5") >>,  \* "f5"
      << << 102, 54 >>, KeyboardKey("F6") >>,  \* "f6"
      << << 102, 55 >>, KeyboardKey("F7") >>,  \* "f7"
      << << 102, 56 >>, KeyboardKey("F8") >>,  \* "f8"
      << << 102, 57 >>, KeyboardKey("F9") >>,  \* "f9"
      << << 102, 49, 48 >>, KeyboardKey("F10") >>,  \* "f10"
      << << 102, 49, 49 >>, KeyboardKey("F11") >>,  \* "f11"
      << << 102, 49, 50 >>, KeyboardKey("F12") >>,  \* "f12"
      << << 110, 117, 109, 48 >>, KeyboardKey("Numpad0") >>,  \* "num0"
      << << 110, 117, 109, 112, 97, 100, 48 >>, KeyboardKey("Numpad0") >>,  \* "numpad0"
      << << 110, 117, 109, 49 >>, KeyboardKey("Numpad1") >>,  \* "num1"
      << << 110, 117, 109, 112, 97, 100, 49 >>, KeyboardKey("Numpad1") >>,  \* "numpad1"
      << << 110, 117, 109, 50 >>, KeyboardKey("Numpad2") >>,  \* "num2"
      << << 110, 117, 109, 112, 97, 100, 50 >>, KeyboardKey("Numpad2") >>,  \* "numpad2"
      << << 110, 117, 109, 51 >>, KeyboardKey("Numpad3") >>,  \* "num3"
      << << 110, 117, 109, 112, 97, 100, 51 >>, KeyboardKey("Numpad3") >>,  \* "numpad3"
      << << 110, 117, 109, 52 >>, KeyboardKey("Numpad4") >>,  \* "num4"
      << << 110, 117, 109, 112, 97, 100, 52 >>, KeyboardKey("Numpad4") >>,  \* "numpad4"
      << << 110, 117, 109, 53 >>, KeyboardKey("Numpad5") >>,  \* "num5"
      << << 110, 117, 109, 112, 97, 100, 53 >>, KeyboardKey("Numpad5") >>,  \* "numpad5"
      << << 110, 117, 109, 54 >>, KeyboardKey("Numpad6") >>,  \* "num6"
      << << 110, 117, 109, 112, 97, 100, 54 >>, KeyboardKey("Numpad6") >>,  \* "numpad6"
      << << 110, 117, 109, 55 >>, KeyboardKey("Numpad7") >>,  \* "num7"
      << << 110, 117, 109, 112, 97, 100, 55 >>, KeyboardKey("Numpad7") >>,  \* "numpad7"
      << << 110, 117, 109, 56 >>, KeyboardKey("Numpad8") >>,  \* "num8"
      << << 110, 117, 109, 112, 97, 100, 56 >>, KeyboardKey("Numpad8") >>,  \* "numpad8"
      << << 110, 117, 109, 57 >>, KeyboardKey("Numpad9") >>,  \* "num9"
      << << 110, 117, 109, 112, 97, 100, 57 >>, KeyboardKey("Numpad9") >>,  \* "numpad9"
      << << 110, 117, 109, 97, 100, 100 >>, KeyboardKey("Add") >>,  \* "numadd"
      << << 110, 117, 109, 112, 108, 117, 115 >>, KeyboardKey("Add") >>,  \* "numplus"
      << << 110, 117, 109, 115, 117, 98 >>, KeyboardKey("Subtract") >>,  \* "numsub"
      << << 110, 117, 109, 109, 105, 110, 117, 115 >>, KeyboardKey("Subtract") >>,  \* "numminus"
      << << 110, 117, 109, 109, 117, 108 >>, KeyboardKey("Multiply") >>,  \* "nummul"
      << << 110, 117, 109, 109, 117, 108, 116, 105, 112, 108, 121 >>, KeyboardKey("Multiply") >>,  \* "nummultiply"
      << << 110, 117, 109, 100, 105, 118 >>, KeyboardKey("Divide") >>,  \* "numdiv"
      << << 110, 117, 109, 100, 105, 118, 105, 100, 101 >>, KeyboardKey("Divide") >>,  \* "numdivide"
      << << 110, 117, 109, 100, 101, 99 >>, KeyboardKey("Decimal") >>,  \* "numdec"
      << << 110, 117, 109, 100, 101, 99, 105, 109, 97, 108 >>, KeyboardKey("Decimal") >>,  \* "numdecimal"
      << << 110, 117, 109, 101, 110, 116, 101, 114 >>, KeyboardKey("Return") >>   \* "numenter"
    }

\* char::to_ascii_lowercase
to_ascii_lowercase(c) == IF c >= 65 /\ c <= 90 THEN c + 32 ELSE c

\* Option<ParsedInput>
parse_key(key_str) ==
    LET key_lower == to_lowercase(key_str)
        hit == {e \in named_keys : e[1] = key_lower}
    IN  IF hit # {} THEN Some((CHOOSE e \in hit : TRUE)[2])
        ELSE IF str_len(key_lower) = 1
             THEN Some(KeyboardUnicode(to_ascii_lowercase(key_lower[1])))
             ELSE None

\* Option<Button>
mouse_action_to_button(action) ==
    IF action \in {"ScrollUp", "ScrollDown"} THEN None ELSE Some(action)

\* -------------------------------------------------------------- InputState
\* The enigo field is the list of calls made on the Enigo object during the
\* current iteration of main's loop.
enigo_key(s, key, direction) ==
    [s EXCEPT !.enigo = Append(@, [ev |-> "key", key |-> key, dir |-> direction])]
enigo_button(s, button, direction) ==
    [s EXCEPT !.enigo = Append(@, [ev |-> "button", button |-> button, dir |-> direction])]
enigo_scroll(s, length) ==
    [s EXCEPT !.enigo = Append(@, [ev |-> "scroll", length |-> length])]
enigo_move_mouse(s, x, y) ==
    [s EXCEPT !.enigo = Append(@, [ev |-> "move_mouse", x |-> x, y |-> y])]

\* InputState::new
InputState_new ==
    [pressed_keys |-> {},
     pressed_modifiers |-> NoModifiers,
     enigo |-> << >>,
     skill_center |-> None,
     active_skill |-> None,
     current_mouse_x |-> 0,
     current_mouse_y |-> 0,
     target_mouse_x |-> 0,
     target_mouse_y |-> 0]

\* one `if modifiers.f && (press != self.pressed_modifiers.f)` of update_modifiers
update_modifier(s, modifiers, f, key, press) ==
    IF modifiers[f] /\ (press # s.pressed_modifiers[f])
    THEN [enigo_key(s, Key(key), IF press THEN "Press" ELSE "Release")
            EXCEPT !.pressed_modifiers[f] = press]
    ELSE s

update_modifiers(s, modifiers, press) ==
    LET s1 == update_modifier(s, modifiers, "shift", "Shift", press)
        s2 == update_modifier(s1, modifiers, "control", "Control", press)
        s3 == update_modifier(s2, modifiers, "alt", "Alt", press)
    IN  update_modifier(s3, modifiers, "command", "Meta", press)

\* variant: shift is left out of the release
release_all_modifiers_but_shift(s) ==
    LET all == [shift |-> FALSE, control |-> TRUE, alt |-> TRUE, command |-> TRUE] IN
    update_modifiers(s, all, FALSE)

release_all_modifiers(s) ==
    LET all == [shift |-> TRUE, control |-> TRUE, alt |-> TRUE, command |-> TRUE] IN
    update_modifiers(s, all, FALSE)

update_key(s, key, should_press) ==
    LET key_str == char_to_string(key)
        is_pressed == key_str \in s.pressed_keys
    IN  IF should_press /\ ~is_pressed
        THEN [enigo_key(s, Unicode(key), "Press")
                EXCEPT !.pressed_keys = @ \cup {key_str}]
        ELSE IF ~should_press /\ is_pressed
        THEN [enigo_key(s, Unicode(key), "Release")
                EXCEPT !.pressed_keys = @ \ {key_str}]
        ELSE s

\* variant: no deadzone: any deflection presses
handle_joystick_no_deadzone(s, x0, y0) ==
    LET s1 == update_key(s, 97, x0 < 0)
        s2 == update_key(s1, 100, x0 > 0)
        s3 == update_key(s2, 119, y0 < 0)
    IN  update_key(s3, 115, y0 > 0)

handle_joystick(s, x0, y0) ==
    LET x == IF Abs(x0) < DEADZONE THEN 0 ELSE x0
        y == IF Abs(y0) < DEADZONE THEN 0 ELSE y0
        s1 == update_key(s, 97, x < 0 - DEADZONE)
        s2 == update_key(s1, 100, x > DEADZONE)
        s3 == update_key(s2, 119, y < 0 - DEADZONE)
    IN  update_key(s3, 115, y > DEADZONE)

\* variant: a scroll action pressed and recorded like a mouse button
button_press_scroll_held(s, key_lower) ==
    LET parsed == parse_key(key_lower) IN
    IF ~parsed.some THEN s
    ELSE IF parsed.v.kind = "Keyboard"
    THEN [enigo_key(s, parsed.v.key, "Press") EXCEPT !.pressed_keys = @ \cup {key_lower}]
    ELSE [enigo_button(s, parsed.v.action, "Press")
            EXCEPT !.pressed_keys = @ \cup {key_lower}]

\* the `if pressed` half of handle_button: the main key or mouse button
button_press(s, key_lower) ==
    LET parsed == parse_key(key_lower) IN
    IF ~parsed.some THEN s
    ELSE IF parsed.v.kind = "Keyboard"
    THEN [enigo_key(s, parsed.v.key, "Press") EXCEPT !.pressed_keys = @ \cup {key_lower}]
    ELSE IF parsed.v.action = "ScrollUp" THEN enigo_scroll(s, 2)
    ELSE IF parsed.v.action = "ScrollDown" THEN enigo_scroll(s, 0 - 2)
    ELSE IF mouse_action_to_button(parsed.v.action).some
    THEN [enigo_button(s, mouse_action_to_button(parsed.v.action).v, "Press")
            EXCEPT !.pressed_keys = @ \cup {key_lower}]
    ELSE s

\* the `else` half of handle_button: the main key or mouse button
button_release(s, key_lower) ==
    LET parsed == parse_key(key_lower) IN
    IF ~parsed.some THEN s
    ELSE IF parsed.v.kind = "Keyboard"
    THEN [enigo_key(s, parsed.v.key, "Release") EXCEPT !.pressed_keys = @ \ {key_lower}]
    ELSE IF /\ parsed.v.action # "ScrollUp" /\ parsed.v.action # "ScrollDown"
            /\ mouse_action_to_button(parsed.v.action).some
    THEN [enigo_button(s, mouse_action_to_button(parsed.v.action).v, "Release")
            EXCEPT !.pressed_keys = @ \ {key_lower}]
    ELSE s

\* variant: on press the modifiers are pressed after the main key
handle_button_key_first(s, key, pressed, modifiers) ==
    LET key_lower == to_lowercase(key)
        with_mods == modifiers.some /\ ~is_empty(modifiers.v)
        s1 == IF pressed THEN button_press(s, key_lower) ELSE button_release(s, key_lower)
    IN  IF with_mods THEN update_modifiers(s1, modifiers.v, pressed) ELSE s1

handle_button(s, key, pressed, modifiers) ==
    LET key_lower == to_lowercase(key)
        with_mods == modifiers.some /\ ~is_empty(modifiers.v)
    IN  IF pressed
        THEN button_press(IF with_mods THEN update_modifiers(s, modifiers.v, TRUE) ELSE s,
                          key_lower)
        ELSE LET s1 == button_release(s, key_lower) IN
             IF with_mods THEN update_modifiers(s1, modifiers.v, FALSE) ELSE s1

\* the click of the skill key in handle_skill_start
skill_click(s, key) ==
    LET parsed == parse_key(key) IN
    IF ~parsed.some THEN s
    ELSE IF parsed.v.kind = "Keyboard" THEN enigo_key(s, parsed.v.key, "Click")
    ELSE IF parsed.v.action = "ScrollUp" THEN enigo_scroll(s, 2)
    ELSE IF parsed.v.action = "ScrollDown" THEN enigo_scroll(s, 0 - 2)
    ELSE IF mouse_action_to_button(parsed.v.action).some
    THEN enigo_button(s, mouse_action_to_button(parsed.v.action).v, "Click")
    ELSE s

\* variant: the pointer is moved to the center before the key is clicked
handle_skill_start_move_first(s, key, offset_x, offset_y, modifiers, display) ==
    LET base_center == get_current_display_center(display)
        c  == << base_center[1] + offset_x, base_center[2] + offset_y >>
        s1 == enigo_move_mouse([s EXCEPT !.skill_center = Some(c)], c[1], c[2])
        s2 == IF modifiers.some THEN update_modifiers(s1, modifiers.v, TRUE) ELSE s1
        s3 == skill_click(s2, key)
        s4 == IF modifiers.some THEN update_modifiers(s3, modifiers.v, FALSE) ELSE s3
    IN  [s4 EXCEPT !.current_mouse_x = as_f32(c[1]),
                   !.current_mouse_y = as_f32(c[2]),
                   !.target_mouse_x = as_f32(c[1]),
                   !.target_mouse_y = as_f32(c[2]),
                   !.active_skill = Some(key)]

\* display: what the display and mouse-position queries return at this call
handle_skill_start(s, key, offset_x, offset_y, modifiers, display) ==
    LET base_center == get_current_display_center(display)
        c  == << base_center[1] + offset_x, base_center[2] + offset_y >>
        s1 == [s EXCEPT !.skill_center = Some(c)]
        s2 == IF modifiers.some THEN update_modifiers(s1, modifiers.v, TRUE) ELSE s1
        s3 == skill_click(s2, key)
        s4 == IF modifiers.some THEN update_modifiers(s3, modifiers.v, FALSE) ELSE s3
        s5 == enigo_move_mouse(s4, c[1], c[2])
    IN  [s5 EXCEPT !.current_mouse_x = as_f32(c[1]),
                   !.current_mouse_y = as_f32(c[2]),
                   !.target_mouse_x = as_f32(c[1]),
                   !.target_mouse_y = as_f32(c[2]),
                   !.active_skill = Some(key)]

\* v * SMOOTH_FACTOR
mul_smooth(v) == (v * SmoothNum) \div SmoothDen

\* variant: without a cast the drag is around the default center
handle_skill_drag_default_center(s, key, dx, dy, distance, smooth) ==
    LET c == IF s.skill_center.some THEN s.skill_center.v ELSE << 960, 540 >> IN
    enigo_move_mouse(s, as_i32(as_f32(c[1]) + mul_radius(dx)),
                     as_i32(as_f32(c[2]) + mul_radius(dy)))

\* variant: the smoothed position advances past the target by the same fraction
handle_skill_drag_overshoot(s, key, dx, dy, distance, smooth) ==
    IF ~s.skill_center.some THEN s
    ELSE LET c == s.skill_center.v
             target_x == as_f32(c[1]) + mul_radius(dx)
             target_y == as_f32(c[2]) + mul_radius(dy)
         IN  IF smooth
             THEN LET cx == target_x + mul_smooth(target_x - s.current_mouse_x)
                      cy == target_y + mul_smooth(target_y - s.current_mouse_y)
                  IN  enigo_move_mouse(
                        [s EXCEPT !.target_mouse_x = target_x,
                                  !.target_mouse_y = target_y,
                                  !.current_mouse_x = cx,
                                  !.current_mouse_y = cy],
                        as_i32(cx), as_i32(cy))
             ELSE enigo_move_mouse(s, as_i32(target_x), as_i32(target_y))

handle_skill_drag(s, key, dx, dy, distance, smooth) ==
    IF ~s.skill_center.some THEN s
    ELSE LET c == s.skill_center.v
             target_x == as_f32(c[1]) + mul_radius(dx)
             target_y == as_f32(c[2]) + mul_radius(dy)
         IN  IF smooth
             THEN LET cx == s.current_mouse_x + mul_smooth(target_x - s.current_mouse_x)
                      cy == s.current_mouse_y + mul_smooth(target_y - s.current_mouse_y)
                  IN  enigo_move_mouse(
                        [s EXCEPT !.target_mouse_x = target_x,
                                  !.target_mouse_y = target_y,
                                  !.current_mouse_x = cx,
                                  !.current_mouse_y = cy],
                        as_i32(cx), as_i32(cy))
             ELSE enigo_move_mouse(s, as_i32(target_x), as_i32(target_y))

\* variant: the pointer stays where the skill was released
handle_skill_release_no_return(s, key, dx, dy) ==
    LET s1 == IF ~s.skill_center.some THEN s
              ELSE LET c == s.skill_center.v
                       a == enigo_move_mouse(s, c[1] + as_i32(mul_radius(dx)),
                                             c[2] + as_i32(mul_radius(dy)))
                       b == enigo_button(a, "Left", "Press")
                   IN  enigo_button(b, "Left", "Release")
    IN  [s1 EXCEPT !.skill_center = None, !.active_skill = None]

handle_skill_release(s, key, dx, dy) ==
    LET s1 == IF ~s.skill_center.some THEN s
              ELSE LET c == s.skill_center.v
                       mouse_x == c[1] + as_i32(mul_radius(dx))
                       mouse_y == c[2] + as_i32(mul_radius(dy))
                       a == enigo_move_mouse(s, mouse_x, mouse_y)
                       b == enigo_button(a, "Left", "Press")
                       d == enigo_button(b, "Left", "Release")
                   IN  enigo_move_mouse(d, c[1], c[2])
    IN  [s1 EXCEPT !.skill_center = None, !.active_skill = None]

\* variant: the pointer is moved to the last pointer position when idle
handle_skill_cancel_always_moves(s, key) ==
    LET s1 == IF s.skill_center.some
              THEN enigo_move_mouse(s, s.skill_center.v[1], s.skill_center.v[2])
              ELSE enigo_move_mouse(s, as_i32(s.current_mouse_x), as_i32(s.current_mouse_y))
    IN  [s1 EXCEPT !.skill_center = None, !.active_skill = None]

\* variant: the cancel forgets the center and keeps the key
handle_skill_cancel_keeps_key(s, key) ==
    LET s1 == IF s.skill_center.some
              THEN enigo_move_mouse(s, s.skill_center.v[1], s.skill_center.v[2])
              ELSE s
    IN  [s1 EXCEPT !.skill_center = None]

handle_skill_cancel(s, key) ==
    LET s1 == IF s.skill_center.some
              THEN enigo_move_mouse(s, s.skill_center.v[1], s.skill_center.v[2])
              ELSE s
    IN  [s1 EXCEPT !.skill_center = None, !.active_skill = None]

\* variant: mouse buttons are left alone
release_key_keyboard_only(s, key_str) ==
    LET parsed == parse_key(key_str) IN
    IF parsed.some /\ parsed.v.kind = "Keyboard"
    THEN enigo_key(s, parsed.v.key, "Release")
    ELSE s

\* the body of release_all's `for key_str in self.pressed_keys.clone()`
release_key(s, key_str) ==
    LET parsed == parse_key(key_str) IN
    IF ~parsed.some THEN s
    ELSE IF parsed.v.kind = "Keyboard" THEN enigo_key(s, parsed.v.key, "Release")
    ELSE IF mouse_action_to_button(parsed.v.action).some
    THEN enigo_button(s, mouse_action_to_button(parsed.v.action).v, "Release")
    ELSE s

RECURSIVE release_keys(_, _)
release_keys(s, order) ==
    IF order = << >> THEN s
    ELSE release_keys(release_key(s, Head(order)), Tail(order))

\* order: the order in which the HashSet iterator yields pressed_keys
release_all(s, order) ==
    LET s1 == release_keys(s, order)
        s2 == release_all_modifiers([s1 EXCEPT !.pressed_keys = {}])
    IN  [s2 EXCEPT !.skill_center = None, !.active_skill = None]

\* the iteration orders a HashSet of these elements can have
iteration_orders(set) ==
    {o \in [1..Cardinality(set) -> set] : \A e \in set : \E i \in DOMAIN o : o[i] = e}

\* ------------------------------------------------------------------- time
\* elapsed counts half seconds; Duration::as_secs drops the fraction.
UnitsPerSec == 2
as_secs(units) == units \div UnitsPerSec
\* socket.set_read_timeout(1 s), in units
ReadTimeout == 1 * UnitsPerSec
\* elapsed is only compared with HEARTBEAT_TIMEOUT_SECS: it saturates here
ElapsedCap == (HEARTBEAT_TIMEOUT_SECS + 3) * UnitsPerSec

Min(a, b) == IF a < b THEN a ELSE b
Range(f) == {f[i] : i \in DOMAIN f}

\* ------------------------------------------------------------- datagrams
\* A datagram is [buf, json]: buf holds its bytes (for a text datagram only the
\* first byte, which is what main inspects) and json is what
\* serde_json::from_slice::<InputMessage> returns for it (None for Err).
Binary(bytes) == [buf |-> bytes, json |-> None]
Text(msg) == [buf |-> << 123 >>, json |-> Some(msg)]
BadText == [buf |-> << 123 >>, json |-> None]
EmptyDatagram == [buf |-> << >>, json |-> None]

\* replies written with socket.send_to
SendBinary(bytes, to) == [ev |-> "send_to", family |-> "binary", bytes |-> bytes, to |-> to]
SendText(json, to) == [ev |-> "send_to", family |-> "text", json |-> json, to |-> to]
AckMessage(seq) == [type |-> "ack", seq |-> seq]
PongMessage(timestamp) == [type |-> "pong", timestamp |-> timestamp]

\* --------------------------------------------------------------- variables
VARIABLES
    last_client,          \* Option<SocketAddr>
    elapsed,              \* last_heartbeat.elapsed() when recv_from is called
    client_extreme_mode,  \* bool
    processed_seqs,       \* VecDeque<u32>, front first
    input_state,          \* InputState
    io,                   \* send_to and enigo calls of the last iteration, in order
    peer_seq,             \* the next unused sequence number of the controllers
    session_log,          \* sequence numbers admitted since processed_seqs was cleared
    window_src,           \* for each entry of processed_seqs, the address it came from
    sink_down,            \* the keys and buttons the operating system holds down for enigo
    last,                 \* what the last iteration of the loop was
    env                   \* the inputs this specification offers (never changes)

vars == << last_client, elapsed, client_extreme_mode, processed_seqs, input_state,
           io, peer_seq, session_log, window_src, sink_down, last, env >>

\* ----------------------------------------------------------------- main
is_binary_datagram(d) == Len(d.buf) > 0 /\ B(d.buf, 0) = MAGIC

\* the seq a JSON message carries (lines 844-849)
json_seq(m) ==
    IF m.type \in {"Button", "SkillRelease", "SkillCancel"} THEN m.seq ELSE None

\* (msg, ack_seq) of lines 827-854, as Some(<<msg, ack_seq>>) or None
decode(d) ==
    IF is_binary_datagram(d) THEN parse_binary_message(d.buf)
    ELSE IF d.json.some THEN Some(<< d.json.v, json_seq(d.json.v) >>)
    ELSE None

decoded_msg(d) == IF decode(d).some THEN Some(decode(d).v[1]) ELSE None
decoded_seq(d) == IF decode(d).some THEN decode(d).v[2] ELSE None

\* lines 857-867: the acknowledgement
send_ack(ack_seq, is_binary, src) ==
    IF ~ack_seq.some THEN << >>
    ELSE IF is_binary THEN << SendBinary(build_binary_ack(ack_seq.v), src) >>
    ELSE << SendText(AckMessage(ack_seq.v), src) >>

\* line 870
is_duplicate(seqs, ack_seq) == ack_seq.some /\ ack_seq.v \in Range(seqs)

\* variant: the window is trimmed when it reaches MAX_PROCESSED_SEQS
record_seq_ge(seqs, seq) ==
    LET pushed == Append(seqs, seq) IN
    IF Len(pushed) >= MAX_PROCESSED_SEQS THEN Tail(pushed) ELSE pushed

\* variant: pop_back instead of pop_front
record_seq_pop_back(seqs, seq) ==
    LET pushed == Append(seqs, seq) IN
    IF Len(pushed) > MAX_PROCESSED_SEQS THEN SubSeq(pushed, 1, Len(pushed) - 1)
    ELSE pushed

\* lines 876-879: push_back, then pop_front above MAX_PROCESSED_SEQS
record_seq(seqs, seq) ==
    LET pushed == Append(seqs, seq) IN
    IF Len(pushed) > MAX_PROCESSED_SEQS THEN Tail(pushed) ELSE pushed

\* variant: the pong is always the JSON one
send_pong_json(timestamp, is_binary, src) == << SendText(PongMessage(timestamp), src) >>

\* lines 907-919: the reply of the Ping arm
send_pong(timestamp, is_binary, src) ==
    IF is_binary THEN << SendBinary(build_binary_pong(timestamp), src) >>
    ELSE << SendText(PongMessage(timestamp), src) >>

\* lines 882-921: the match on the message; the InputState after it
dispatch(s, msg, display) ==
    IF msg.type = "Joystick" THEN handle_joystick(s, msg.x, msg.y)
    ELSE IF msg.type = "Button"
         THEN handle_button(s, msg.key, msg.pressed, msg.modifiers)
    ELSE IF msg.type = "SkillStart"
         THEN handle_skill_start(s, msg.key, msg.offset_x, msg.offset_y,
                                 msg.modifiers, display)
    ELSE IF msg.type = "SkillDrag"
         THEN handle_skill_drag(s, msg.key, msg.dx, msg.dy, msg.distance, msg.smooth)
    ELSE IF msg.type = "SkillRelease"
         THEN handle_skill_release(s, msg.key, msg.dx, msg.dy)
    ELSE IF msg.type = "SkillCancel" THEN handle_skill_cancel(s, msg.key)
    ELSE s

\* variant: the acknowledgement is sent after the message was handled
iteration_io_ack_last(acks, intents, pongs) == intents \o acks \o pongs

\* the order in which one iteration makes its calls: the acknowledgement, the
\* enigo calls of the handler, the pong
iteration_io(acks, intents, pongs) == acks \o intents \o pongs

\* variant: only the first datagram after a timeout starts a session
is_new_client_first_only(client, src) == ~client.some

\* line 815
is_new_client(client, src) == client # Some(src)

\* variant: the elapsed time is compared without dropping the fraction
heartbeat_expired_exact(client, units) ==
    client.some /\ units > HEARTBEAT_TIMEOUT_SECS * UnitsPerSec

\* variant: the comparison is >= instead of >
heartbeat_expired_ge(client, units) ==
    client.some /\ as_secs(units) >= HEARTBEAT_TIMEOUT_SECS

\* lines 927-928
heartbeat_expired(client, units) ==
    client.some /\ as_secs(units) > HEARTBEAT_TIMEOUT_SECS

\* the datagrams a controller may send now: the fixed ones, and the reliable
\* ones numbered with a new sequence number, with the oldest or with the latest
seq_choices ==
    (IF peer_seq < env.max_seq THEN {peer_seq} ELSE {})
      \cup ({0, peer_seq - 1} \cap (0..(peer_seq - 1)))

\* variant: a change of controller releases what the one before held
recv_ok_takeover_releases(src, d, wait, busy, display) ==
    LET fresh_client == is_new_client(last_client, src)
        seqs0 == IF fresh_client THEN << >> ELSE processed_seqs
        log0 == IF fresh_client THEN << >> ELSE session_log
        src0 == IF fresh_client THEN << >> ELSE window_src
        is_binary == is_binary_datagram(d)
        msg == decoded_msg(d)
        ack_seq == decoded_seq(d)
        acks == send_ack(ack_seq, is_binary, src)
        duplicate == is_duplicate(seqs0, ack_seq)
        e0 == [input_state EXCEPT !.enigo = << >>]
        s0 == IF fresh_client /\ last_client.some
              THEN release_all(e0, CHOOSE o \in iteration_orders(e0.pressed_keys) : TRUE)
              ELSE e0
        s1 == IF duplicate \/ ~msg.some THEN s0 ELSE dispatch(s0, msg.v, display)
        pongs == IF ~duplicate /\ msg.some /\ msg.v.type = "Ping"
                 THEN send_pong(msg.v.timestamp, is_binary, src) ELSE << >>
        admitted == ack_seq.some /\ ~duplicate
        prior == ack_seq.some /\ ack_seq.v \in Range(log0)
    IN  [last_client |-> IF fresh_client THEN Some(src) ELSE last_client,
         elapsed |-> busy,
         client_extreme_mode |-> is_binary,
         processed_seqs |-> IF admitted THEN record_seq(seqs0, ack_seq.v) ELSE seqs0,
         input_state |-> s1,
         io |-> iteration_io(acks, s1.enigo, pongs),
         peer_seq |-> IF ack_seq.some /\ ack_seq.v = peer_seq THEN peer_seq + 1
                      ELSE peer_seq,
         session_log |-> IF admitted THEN Append(log0, ack_seq.v) ELSE log0,
         window_src |-> IF admitted THEN record_seq(src0, src) ELSE src0,
         last |-> [kind |-> "recv", src |-> src, dgram |-> d,
                   gap |-> Min(elapsed + wait, ElapsedCap),
                   had_client |-> last_client.some,
                   new_session |-> fresh_client,
                   duplicate |-> duplicate,
                   prior |-> prior,
                   between |-> IF prior
                               THEN Len(log0) - (CHOOSE i \in DOMAIN log0 :
                                       /\ log0[i] = ack_seq.v
                                       /\ \A j \in DOMAIN log0 :
                                             log0[j] = ack_seq.v => j <= i)
                               ELSE 0,
                   base_center |-> get_current_display_center(display),
                   pre_skill |-> input_state.skill_center,
                   pre_keys |-> input_state.pressed_keys,
                   released |-> FALSE]]

\* Ok((len, src)) of recv_from: datagram d from src arrives after `wait`; the
\* iteration takes `busy`; display is what the display queries return.
\* The value of every variable after the iteration.
recv_ok(src, d, wait, busy, display) ==
    LET fresh_client == is_new_client(last_client, src)
        seqs0 == IF fresh_client THEN << >> ELSE processed_seqs
        log0 == IF fresh_client THEN << >> ELSE session_log
        src0 == IF fresh_client THEN << >> ELSE window_src
        is_binary == is_binary_datagram(d)
        msg == decoded_msg(d)
        ack_seq == decoded_seq(d)
        acks == send_ack(ack_seq, is_binary, src)
        duplicate == is_duplicate(seqs0, ack_seq)
        s0 == [input_state EXCEPT !.enigo = << >>]
        s1 == IF duplicate \/ ~msg.some THEN s0 ELSE dispatch(s0, msg.v, display)
        pongs == IF ~duplicate /\ msg.some /\ msg.v.type = "Ping"
                 THEN send_pong(msg.v.timestamp, is_binary, src) ELSE << >>
        admitted == ack_seq.some /\ ~duplicate
        prior == ack_seq.some /\ ack_seq.v \in Range(log0)
    IN  [last_client |-> IF fresh_client THEN Some(src) ELSE last_client,
         elapsed |-> busy,
         client_extreme_mode |-> is_binary,
         processed_seqs |-> IF admitted THEN record_seq(seqs0, ack_seq.v) ELSE seqs0,
         input_state |-> s1,
         io |-> iteration_io(acks, s1.enigo, pongs),
         peer_seq |-> IF ack_seq.some /\ ack_seq.v = peer_seq THEN peer_seq + 1
                      ELSE peer_seq,
         session_log |-> IF admitted THEN Append(log0, ack_seq.v) ELSE log0,
         window_src |-> IF admitted THEN record_seq(src0, src) ELSE src0,
         last |-> [kind |-> "recv", src |-> src, dgram |-> d,
                   gap |-> Min(elapsed + wait, ElapsedCap),
                   had_client |-> last_client.some,
                   new_session |-> fresh_client,
                   duplicate |-> duplicate,
                   prior |-> prior,
                   between |-> IF prior
                               THEN Len(log0) - (CHOOSE i \in DOMAIN log0 :
                                       /\ log0[i] = ack_seq.v
                                       /\ \A j \in DOMAIN log0 :
                                             log0[j] = ack_seq.v => j <= i)
                               ELSE 0,
                   base_center |-> get_current_display_center(display),
                   pre_skill |-> input_state.skill_center,
                   pre_keys |-> input_state.pressed_keys,
                   released |-> FALSE]]

\* Err(WouldBlock | TimedOut) of recv_from, after the read timeout; order is
\* the iteration order of pressed_keys in release_all.
\* The value of every variable after the iteration.
\* variant: the timeout counts as contact
recv_timeout_refreshes(order) ==
    LET units == Min(elapsed + ReadTimeout, ElapsedCap)
        expired == heartbeat_expired(last_client, units)
        s0 == [input_state EXCEPT !.enigo = << >>]
        s1 == IF expired THEN release_all(s0, order) ELSE s0
    IN  [last_client |-> IF expired THEN None ELSE last_client,
         elapsed |-> 0,
         client_extreme_mode |-> client_extreme_mode,
         processed_seqs |-> processed_seqs,
         input_state |-> s1,
         io |-> s1.enigo,
         peer_seq |-> peer_seq,
         session_log |-> session_log,
         window_src |-> window_src,
         last |-> [kind |-> "tick", gap |-> units, had_client |-> last_client.some,
                   pre_skill |-> input_state.skill_center,
                   pre_keys |-> input_state.pressed_keys,
                   released |-> expired]]

recv_timeout(order) ==
    LET units == Min(elapsed + ReadTimeout, ElapsedCap)
        expired == heartbeat_expired(last_client, units)
        s0 == [input_state EXCEPT !.enigo = << >>]
        s1 == IF expired THEN release_all(s0, order) ELSE s0
    IN  [last_client |-> IF expired THEN None ELSE last_client,
         elapsed |-> units,
         client_extreme_mode |-> client_extreme_mode,
         processed_seqs |-> processed_seqs,
         input_state |-> s1,
         io |-> s1.enigo,
         peer_seq |-> peer_seq,
         session_log |-> session_log,
         window_src |-> window_src,
         last |-> [kind |-> "tick", gap |-> units, had_client |-> last_client.some,
                   pre_skill |-> input_state.skill_center,
                   pre_keys |-> input_state.pressed_keys,
                   released |-> expired]]

\* what a call on the Enigo object does to the keys and buttons held down: a
\* Press holds the key or button, a Release and a Click leave it up
sink_id(e) == IF e.ev = "key" THEN << "key", e.key >> ELSE << "button", e.button >>
sink_call(down, e) ==
    IF e.ev \notin {"key", "button"} THEN down
    ELSE IF e.dir = "Press" THEN down \cup {sink_id(e)}
    ELSE down \ {sink_id(e)}
RECURSIVE sink_after(_, _)
sink_after(down, log) ==
    IF log = << >> THEN down ELSE sink_after(sink_call(down, Head(log)), Tail(log))

\* one iteration of main's loop ending in the values r
Iterate(r) ==
    /\ last_client' = r.last_client
    /\ elapsed' = r.elapsed
    /\ client_extreme_mode' = r.client_extreme_mode
    /\ processed_seqs' = r.processed_seqs
    /\ input_state' = r.input_state
    /\ io' = r.io
    /\ peer_seq' = r.peer_seq
    /\ session_log' = r.session_log
    /\ window_src' = r.window_src
    /\ sink_down' = sink_after(sink_down, r.io)
    /\ last' = r.last
    /\ UNCHANGED env

Recv(src, d, wait, busy, display) ==
    \E r \in {recv_ok(src, d, wait, busy, display)} : Iterate(r)

Tick(order) == \E r \in {recv_timeout(order)} : Iterate(r)

\* ------------------------------------------------------------------ frames
\* The frames a controller builds, from the layouts in the comments of
\* parse_binary_message.
JoystickFrame(x, y) == << MAGIC, MSG_JOYSTICK >> \o x \o y
LegacyButtonFrame(k, p) == << MAGIC, MSG_BUTTON, k, p >>
ButtonFrame(key, p, m) == << MAGIC, MSG_BUTTON, Len(key) >> \o key \o << p, m >>
ReliableButtonFrame(seq, key, p, m) ==
    << MAGIC, MSG_RELIABLE_BUTTON >> \o u32_to_le_bytes(seq) \o << Len(key) >> \o key
      \o << p, m >>
LegacySkillStartFrame(k) == << MAGIC, MSG_SKILL_START, k >>
SkillStartFrame(key, m) == << MAGIC, MSG_SKILL_START, Len(key) >> \o key \o << m >>
SkillDragFrame(k, dx, dy, distance, smooth) ==
    << MAGIC, MSG_SKILL_DRAG, k >> \o dx \o dy \o distance \o smooth
SkillReleaseFrame(k, dx, dy) == << MAGIC, MSG_SKILL_RELEASE, k >> \o dx \o dy
ReliableSkillReleaseFrame(seq, k, dx, dy) ==
    << MAGIC, MSG_RELIABLE_SKILL_RELEASE >> \o u32_to_le_bytes(seq) \o << k >> \o dx \o dy
SkillCancelFrame(k) == << MAGIC, MSG_SKILL_CANCEL, k >>
ReliableSkillCancelFrame(seq, k) ==
    << MAGIC, MSG_RELIABLE_SKILL_CANCEL >> \o u32_to_le_bytes(seq) \o << k >>
PingFrame(timestamp) == << MAGIC, MSG_PING >> \o u64_to_le_bytes(timestamp)

\* f32::to_le_bytes of a few values
F_0 == << 0, 0, 0, 0 >>              \* 0.0
F_1 == << 0, 0, 128, 63 >>           \* 1.0
F_m1 == << 0, 0, 128, 191 >>         \* -1.0
F_half == << 0, 0, 0, 63 >>          \* 0.5
F_eighth == << 0, 0, 0, 62 >>        \* 0.125
F_m_eighth == << 0, 0, 0, 190 >>     \* -0.125
F_1024th == << 0, 0, 128, 58 >>      \* 2^-10
F_m_1024th == << 0, 0, 128, 186 >>   \* -2^-10
F_m_quarter == << 0, 0, 128, 190 >>  \* -0.25

\* key names
K_q == << 113 >>
K_Q == << 81 >>
K_a == << 97 >>
K_mouse_left == << 109, 111, 117, 115, 101, 95, 108, 101, 102, 116 >>
K_scroll_up == << 115, 99, 114, 111, 108, 108, 95, 117, 112 >>
K_scroll_down == << 115, 99, 114, 111, 108, 108, 95, 100, 111, 119, 110 >>
K_w == << 119 >>
K_qw == << 113, 119 >>    \* no key of this name
K_esc == << 101, 115, 99 >>
K_escape == << 101, 115, 99, 97, 112, 101 >>
K_shift == << 115, 104, 105, 102, 116 >>

ShiftOnly == [NoModifiers EXCEPT !.shift = TRUE]
ShiftControl == [NoModifiers EXCEPT !.shift = TRUE, !.control = TRUE]

\* the reliable datagrams, by name, carrying sequence number seq
Reliable(name, seq) ==
    CASE name = "bin_button_q_down" -> Binary(ReliableButtonFrame(seq, K_q, 1, 0))
      [] name = "bin_button_q_up" -> Binary(ReliableButtonFrame(seq, K_q, 0, 0))
      [] name = "text_button_q_down" -> Text(Button(K_q, TRUE, None, Some(seq)))
      [] name = "bin_skill_release" ->
            Binary(ReliableSkillReleaseFrame(seq, 113, F_1, F_0))
      [] name = "bin_skill_cancel" -> Binary(ReliableSkillCancelFrame(seq, 113))
      [] name = "text_skill_cancel" -> Text(SkillCancel(K_q, Some(seq)))

Offered == env.menu \cup {Reliable(n, s) : n \in env.reliable, s \in seq_choices}

\* ----------------------------------------------------------------- displays
Primary == [x |-> 0, y |-> 0, width |-> 1920, height |-> 1080]
LeftOf == [x |-> 0 - 1280, y |-> 0, width |-> 1280, height |-> 1024]
OnPrimary == [monitors |-> << Primary, LeftOf >>, mouse |-> Some(<< 100, 100 >>)]
OnLeft == [monitors |-> << Primary, LeftOf >>, mouse |-> Some(<< 0 - 100, 50 >>)]
NoDisplay == [monitors |-> << >>, mouse |-> None]

\* ------------------------------------------------------------ specifications
RecvStep ==
    \E src \in env.addrs, d \in Offered, wait \in env.waits, busy \in env.busy,
       display \in env.displays :
        Recv(src, d, wait, busy, display)

\* the read times out when no datagram came for ReadTimeout; env.max_idle is
\* the longest the controllers stay silent
TickStep ==
    /\ Min(elapsed + ReadTimeout, ElapsedCap) <= env.max_idle
    /\ \E order \in iteration_orders(input_state.pressed_keys) : Tick(order)

Next == RecvStep \/ TickStep

InitWith(e) ==
    /\ last_client = None
    /\ elapsed = 0
    /\ client_extreme_mode = FALSE
    /\ processed_seqs = << >>
    /\ input_state = InputState_new
    /\ io = << >>
    /\ peer_seq = 0
    /\ session_log = << >>
    /\ window_src = << >>
    /\ sink_down = {}
    /\ last = [kind |-> "init"]
    /\ env = e

\* sessions, acknowledgements, heartbeat, ping
MaxSeq == 2
SessionEnv ==
    [menu |-> {Binary(PingFrame(65793)), Text(Ping(42)), BadText,
               Binary(LegacyButtonFrame(113, 0))},
     reliable |-> {"bin_button_q_down", "text_button_q_down"},
     max_seq |-> MaxSeq,
     addrs |-> {"10.0.0.1:5000", "10.0.0.2:5000"},
     waits |-> {0},
     busy |-> {0, 1},
     max_idle |-> ElapsedCap,
     displays |-> {OnPrimary}]
Init == InitWith(SessionEnv)
Spec == Init /\ [][Next]_vars

\* the window: one controller numbering reliable Button presses far enough
\* to fill processed_seqs and push entries out of it
WindowExtra == 2
WindowEnv ==
    [menu |-> {Binary(LegacyButtonFrame(113, 0))},
     reliable |-> {"bin_button_q_down"},
     max_seq |-> MAX_PROCESSED_SEQS + WindowExtra,
     addrs |-> {"10.0.0.1:5000"},
     waits |-> {0},
     busy |-> {0},
     max_idle |-> ReadTimeout,
     displays |-> {OnPrimary}]
InitWindow == InitWith(WindowEnv)
SpecWindow == InitWindow /\ [][Next]_vars

\* keys and joystick: one controller, never silent long enough to expire
InputEnv ==
    [menu |-> {Binary(JoystickFrame(F_eighth, F_m_eighth)),
               Binary(JoystickFrame(F_m1, F_0)),
               Binary(JoystickFrame(F_1, F_1)),
               Binary(JoystickFrame(F_0, F_m1)),
               Binary(LegacyButtonFrame(113, 1)),
               Binary(LegacyButtonFrame(113, 0)),
               Text(Button(K_mouse_left, TRUE, None, None)),
               Text(Button(K_mouse_left, FALSE, None, None))},
     reliable |-> {},
     max_seq |-> 0,
     addrs |-> {"10.0.0.1:5000"},
     waits |-> {0},
     busy |-> {0},
     max_idle |-> ReadTimeout,
     displays |-> {OnPrimary}]
InitInput == InitWith(InputEnv)
SpecInput == InitInput /\ [][Next]_vars

\* skill casts: one controller, the pointer on either monitor
SkillEnv ==
    [menu |-> {Text(SkillStart(K_q, 10, 0 - 20, None)),
               Binary(SkillStartFrame(K_q, 0)),
               Binary(SkillReleaseFrame(113, F_1, F_0)),
               Binary(SkillReleaseFrame(113, F_m_eighth, F_half)),
               Text(SkillRelease(K_q, 0 - FUnit, FUnit, None)),
               Binary(SkillCancelFrame(113)),
               Binary(SkillDragFrame(113, F_half, F_0, F_1, << 0 >>)),
               Binary(LegacyButtonFrame(113, 1)),
               Text(Button(K_Q, FALSE, Some(ShiftOnly), None)),
               Text(Button(K_a, TRUE, Some(ShiftOnly), None))},
     reliable |-> {},
     max_seq |-> 0,
     addrs |-> {"10.0.0.1:5000"},
     waits |-> {0},
     busy |-> {0},
     max_idle |-> ElapsedCap,
     displays |-> {OnPrimary, OnLeft}]
InitSkill == InitWith(SkillEnv)
SpecSkill == InitSkill /\ [][Next]_vars

\* Button frames of both layouts for a few single-character keys
CodecKeys == {113, 65, 49}
CodecEnv ==
    [menu |-> {Binary(LegacyButtonFrame(k, p)) : k \in CodecKeys, p \in {0, 1}}
                \cup {Binary(ButtonFrame(<< k >>, p, 0)) : k \in CodecKeys, p \in {0, 1}},
     reliable |-> {},
     max_seq |-> 0,
     addrs |-> {"10.0.0.1:5000"},
     waits |-> {0},
     busy |-> {0},
     max_idle |-> ReadTimeout,
     displays |-> {OnPrimary}]
InitCodec == InitWith(CodecEnv)
SpecCodec == InitCodec /\ [][Next]_vars

\* held keys, buttons, modifiers and a cast, and a controller that falls silent
ReleaseEnv ==
    [menu |-> {Text(Button(K_Q, TRUE, Some(ShiftControl), None)),
               Text(Button(K_mouse_left, TRUE, None, None)),
               Binary(JoystickFrame(F_1, F_1)),
               Binary(SkillStartFrame(K_q, 0)),
               Binary(SkillCancelFrame(113))},
     reliable |-> {},
     max_seq |-> 0,
     addrs |-> {"10.0.0.1:5000"},
     waits |-> {0},
     busy |-> {0},
     max_idle |-> ElapsedCap,
     displays |-> {OnPrimary}]
InitRelease == InitWith(ReleaseEnv)
SpecRelease == InitRelease /\ [][Next]_vars

\* datagrams that are no message: empty, not JSON, the magic alone, type
\* codes that are not requests, and every request type one byte short
Zeros(n) == [i \in 1..n |-> 0]
Undecodable ==
    {EmptyDatagram, BadText,
     Binary(<< MAGIC >>),
     Binary(<< MAGIC, 0 >> \o Zeros(14)),
     Binary(<< MAGIC, 99 >> \o Zeros(14)),
     Binary(<< MAGIC, MSG_PONG >> \o u64_to_le_bytes(42)),
     Binary(<< MAGIC, MSG_ACK >> \o u32_to_le_bytes(0)),
     Binary(<< MAGIC, MSG_JOYSTICK >> \o Zeros(7)),
     Binary(<< MAGIC, MSG_BUTTON, 113 >>),
     Binary(<< MAGIC, MSG_RELIABLE_BUTTON >> \o Zeros(6)),
     Binary(<< MAGIC, MSG_RELIABLE_BUTTON >> \o u32_to_le_bytes(0) \o << 2, 113, 1 >>),
     Binary(<< MAGIC, MSG_SKILL_START >>),
     Binary(<< MAGIC, MSG_SKILL_DRAG, 113 >> \o Zeros(11)),
     Binary(<< MAGIC, MSG_SKILL_RELEASE, 113 >> \o Zeros(7)),
     Binary(<< MAGIC, MSG_RELIABLE_SKILL_RELEASE >> \o Zeros(12)),
     Binary(<< MAGIC, MSG_SKILL_CANCEL >>),
     Binary(<< MAGIC, MSG_RELIABLE_SKILL_CANCEL >> \o Zeros(4)),
     Binary(<< MAGIC, MSG_PING >> \o Zeros(7))}
DropEnv ==
    [menu |-> Undecodable \cup
              {Text(Button(K_Q, TRUE, Some(ShiftOnly), None)),
               Text(Button(K_Q, FALSE, Some(ShiftOnly), None)),
               Binary(SkillStartFrame(K_q, 0)),
               Binary(SkillCancelFrame(113))},
     reliable |-> {},
     max_seq |-> 0,
     addrs |-> {"10.0.0.1:5000"},
     waits |-> {0},
     busy |-> {0},
     max_idle |-> ReadTimeout,
     displays |-> {OnPrimary}]
InitDrop == InitWith(DropEnv)
SpecDrop == InitDrop /\ [][Next]_vars

\* byte buffers of every length up to MaxBufLen for every type code, with each
\* of KeyLens in the key_len byte of the types that have one
MaxBufLen == 18
KeyLens == {0, 1, 2, 3, 7, 255}
TypeCodes ==
    {0, 99, MSG_JOYSTICK, MSG_BUTTON, MSG_SKILL_START, MSG_SKILL_DRAG,
     MSG_SKILL_RELEASE, MSG_SKILL_CANCEL, MSG_PING, MSG_PONG, MSG_ACK,
     MSG_RELIABLE_BUTTON, MSG_RELIABLE_SKILL_RELEASE, MSG_RELIABLE_SKILL_CANCEL}
\* the index of the key_len byte of type code t, or -1
key_len_index(t) ==
    IF t \in {MSG_BUTTON, MSG_SKILL_START} THEN 2
    ELSE IF t = MSG_RELIABLE_BUTTON THEN 6 ELSE 0 - 1
Buffer(t, n, v) ==
    [i \in 1..n |-> IF i = 1 THEN MAGIC ELSE IF i = 2 THEN t
                    ELSE IF i - 1 = key_len_index(t) THEN v ELSE 0]
Buffers ==
    UNION {{Buffer(t, n, v) : n \in 0..MaxBufLen,
                              v \in IF key_len_index(t) >= 0 THEN KeyLens ELSE {0}} :
           t \in TypeCodes}
      \cup {<< 0 >>, << 0, 0 >>, << 123, 125 >>}
\* parse_binary_message on its own: a buffer is drawn, then parsed
InitBytes ==
    /\ last_client = None
    /\ elapsed = 0
    /\ client_extreme_mode = FALSE
    /\ processed_seqs = << >>
    /\ input_state = InputState_new
    /\ io = << >>
    /\ peer_seq = 0
    /\ session_log = << >>
    /\ window_src = << >>
    /\ sink_down = {}
    /\ env = [menu |-> {}]
    /\ \E b \in Buffers : last = [kind |-> "buffer", buf |-> b]
ParseStep ==
    /\ last.kind = "buffer"
    /\ last' = [kind |-> "parsed", buf |-> last.buf,
                result |-> parse_binary_message(last.buf),
                reads |-> indices_read(last.buf)]
    /\ UNCHANGED << last_client, elapsed, client_extreme_mode, processed_seqs,
                    input_state, io, peer_seq, session_log, window_src, sink_down, env >>
NextBytes == ParseStep
SpecBytes == InitBytes /\ [][NextBytes]_vars

\* the numbered frames: four bytes of sequence number after the type code,
\* then the key_len or key byte
ReliableCodes == {MSG_RELIABLE_BUTTON, MSG_RELIABLE_SKILL_RELEASE, MSG_RELIABLE_SKILL_CANCEL}
SeqBytes == {<< 0, 0, 0, 0 >>, << 1, 2, 3, 4 >>, << 0, 1, 0, 0 >>, << 127, 255, 255, 127 >>}
SeqBuffer(t, n, q, v) ==
    [i \in 1..n |-> IF i = 1 THEN MAGIC ELSE IF i = 2 THEN t
                    ELSE IF i <= 6 THEN q[i - 2] ELSE IF i = 7 THEN v ELSE 0]
SeqBuffers ==
    Buffers \cup {SeqBuffer(t, n, q, v) : t \in ReliableCodes, n \in 0..MaxBufLen,
                                          q \in SeqBytes, v \in {0, 1, 3, 113, 255}}
\* parse_binary_message and build_binary_ack on their own: a buffer is drawn
\* and parsed, and the sequence number returned, if any, is acknowledged
InitSeq ==
    /\ last_client = None
    /\ elapsed = 0
    /\ client_extreme_mode = FALSE
    /\ processed_seqs = << >>
    /\ input_state = InputState_new
    /\ io = << >>
    /\ peer_seq = 0
    /\ session_log = << >>
    /\ window_src = << >>
    /\ sink_down = {}
    /\ env = [menu |-> {}]
    /\ \E b \in SeqBuffers : last = [kind |-> "buffer", buf |-> b]
AckStep ==
    /\ last.kind = "parsed" /\ last.result.some /\ last.result.v[2].some
    /\ last' = [kind |-> "acked", buf |-> last.buf, result |-> last.result,
                ack |-> build_binary_ack(last.result.v[2].v)]
    /\ UNCHANGED << last_client, elapsed, client_extreme_mode, processed_seqs,
                    input_state, io, peer_seq, session_log, window_src, sink_down, env >>
NextSeq == ParseStep \/ AckStep
SpecSeq == InitSeq /\ [][NextSeq]_vars

\* drags, smoothed and not, and releases, with and without a cast
DragEnv ==
    [menu |-> {Binary(SkillStartFrame(K_q, 0)),
               Binary(SkillDragFrame(113, F_half, F_0, F_1, << 1 >>)),
               Binary(SkillDragFrame(113, F_half, F_0, F_1, << 0 >>)),
               Binary(SkillDragFrame(113, F_half, F_0, F_1, << >>)),
               Text(SkillDrag(K_q, FUnit \div 2, 0, FUnit, TRUE)),
               Binary(SkillReleaseFrame(113, F_1, F_0)),
               Text(SkillRelease(K_q, 0, FUnit, None)),
               Binary(SkillCancelFrame(113)),
               Text(Button(K_Q, TRUE, Some(ShiftOnly), None))},
     reliable |-> {},
     max_seq |-> 0,
     addrs |-> {"10.0.0.1:5000"},
     waits |-> {0},
     busy |-> {0},
     max_idle |-> ReadTimeout,
     displays |-> {OnPrimary}]
InitDrag == InitWith(DragEnv)
SpecDrag == InitDrag /\ [][Next]_vars

\* Button messages with and without modifiers, for keys, mouse buttons and
\* the two scroll actions
ButtonEnv ==
    [menu |-> {Text(Button(K_scroll_up, TRUE, None, None)),
               Text(Button(K_scroll_up, FALSE, None, None)),
               Text(Button(K_scroll_down, TRUE, Some(ShiftOnly), None)),
               Text(Button(K_scroll_down, FALSE, Some(ShiftOnly), None)),
               Text(Button(K_Q, TRUE, Some(ShiftControl), None)),
               Text(Button(K_Q, FALSE, Some(ShiftControl), None)),
               Text(Button(K_mouse_left, TRUE, Some(ShiftOnly), None)),
               Text(Button(K_mouse_left, FALSE, Some(ShiftOnly), None)),
               Text(Button(K_a, TRUE, None, None))},
     reliable |-> {},
     max_seq |-> 0,
     addrs |-> {"10.0.0.1:5000"},
     waits |-> {0},
     busy |-> {0},
     max_idle |-> ElapsedCap,
     displays |-> {OnPrimary}]
InitButton == InitWith(ButtonEnv)
SpecButton == InitButton /\ [][Next]_vars

\* casts of q, w, a mouse button, a scroll action and an unknown key, with and
\* without modifiers, ended by SkillRelease and SkillCancel of q and of w,
\* while a Button may hold shift
CastEnv ==
    [menu |-> {Binary(SkillStartFrame(K_q, 0)),
               Binary(SkillStartFrame(K_w, 3)),
               Text(SkillStart(K_mouse_left, 10, 0 - 20, Some(ShiftOnly))),
               Text(SkillStart(K_scroll_up, 0, 0, Some(NoModifiers))),
               Text(SkillStart(K_qw, 0, 0, None)),
               Binary(SkillReleaseFrame(113, F_1, F_0)),
               Binary(SkillReleaseFrame(119, F_1, F_0)),
               Binary(SkillCancelFrame(113)),
               Text(SkillCancel(K_w, None)),
               Text(Button(K_a, TRUE, Some(ShiftOnly), None)),
               Text(Button(K_a, FALSE, Some(ShiftOnly), None))},
     reliable |-> {},
     max_seq |-> 0,
     addrs |-> {"10.0.0.1:5000"},
     waits |-> {0},
     busy |-> {0},
     max_idle |-> ReadTimeout,
     displays |-> {OnPrimary, OnLeft}]
InitCast == InitWith(CastEnv)
SpecCast == InitCast /\ [][Next]_vars

\* two controllers taking the session from each other while keys, a modifier
\* and a cast are held; the SkillRelease is numbered, so it can be repeated
HandoverEnv ==
    [menu |-> {Binary(SkillStartFrame(K_q, 0)),
               Binary(SkillDragFrame(113, F_half, F_0, F_1, << 0 >>)),
               Binary(SkillCancelFrame(113)),
               Text(Button(K_Q, TRUE, Some(ShiftOnly), None)),
               Binary(PingFrame(65793)),
               BadText},
     reliable |-> {"bin_skill_release"},
     max_seq |-> 1,
     addrs |-> {"10.0.0.1:5000", "10.0.0.2:5000"},
     waits |-> {0},
     busy |-> {0},
     max_idle |-> ElapsedCap,
     displays |-> {OnPrimary}]
InitHandover == InitWith(HandoverEnv)
SpecHandover == InitHandover /\ [][Next]_vars

\* aiming: one smoothed direction, (0.5, -0.25), and plain drags and releases
\* of two directions, one with whole and one with fractional products, around
\* a center on either monitor
AimEnv ==
    [menu |-> {Binary(SkillStartFrame(K_q, 0)),
               Binary(SkillDragFrame(113, F_half, F_m_quarter, F_1, << 1 >>)),
               Binary(SkillDragFrame(113, F_m_1024th, F_1024th, F_1, << 0 >>)),
               Binary(SkillReleaseFrame(113, F_m_1024th, F_1024th)),
               Binary(SkillDragFrame(113, F_half, F_m1, F_1, << 0 >>)),
               Binary(SkillReleaseFrame(113, F_half, F_m1))},
     reliable |-> {},
     max_seq |-> 0,
     addrs |-> {"10.0.0.1:5000"},
     waits |-> {0},
     busy |-> {0},
     max_idle |-> ReadTimeout,
     displays |-> {OnPrimary, OnLeft}]
InitAim == InitWith(AimEnv)
SpecAim == InitAim /\ [][Next]_vars

\* names for one key: esc and escape, the key shift and the modifier shift, a
\* from a Button and from the joystick, the left button from a Button and
\* from a SkillRelease
KeysEnv ==
    [menu |-> {Text(Button(K_esc, TRUE, None, None)),
               Text(Button(K_escape, TRUE, None, None)),
               Text(Button(K_esc, FALSE, None, None)),
               Text(Button(K_shift, TRUE, None, None)),
               Text(Button(K_a, TRUE, Some(ShiftOnly), None)),
               Text(Button(K_a, FALSE, Some(ShiftOnly), None)),
               Text(Button(K_mouse_left, TRUE, None, None)),
               Binary(SkillStartFrame(K_q, 0)),
               Binary(SkillReleaseFrame(113, F_1, F_0)),
               Binary(JoystickFrame(F_0, F_0))},
     reliable |-> {},
     max_seq |-> 0,
     addrs |-> {"10.0.0.1:5000"},
     waits |-> {0},
     busy |-> {0},
     max_idle |-> (HEARTBEAT_TIMEOUT_SECS + 1) * UnitsPerSec,
     displays |-> {OnPrimary}]
InitKeys == InitWith(KeysEnv)
SpecKeys == InitKeys /\ [][Next]_vars

\* ================================================================== claims
IsIntent(e) == e.ev # "send_to"
IsSend(e) == e.ev = "send_to"
SinkIntents(log) == SelectSeq(log, IsIntent)
Sends(log) == SelectSeq(log, IsSend)
IsRecv(l) == l.kind = "recv"
IsTick(l) == l.kind = "tick"
\* the InputState without the log of the iteration
Held(s) == [s EXCEPT !.enigo = << >>]
\* the message a received datagram was decoded to
RecvMsg(l) == decoded_msg(l.dgram)
RecvType(l, type) == IsRecv(l) /\ RecvMsg(l).some /\ RecvMsg(l).v.type = type

\* the acknowledgement of sequence number s in the family of datagram d, to src
AckOf(d, s, src) ==
    IF is_binary_datagram(d)
    THEN [ev |-> "send_to", family |-> "binary", to |-> src,
          bytes |-> << MAGIC, MSG_ACK, s % 256, (s \div 256) % 256,
                       (s \div 65536) % 256, (s \div 16777216) % 256 >>]
    ELSE [ev |-> "send_to", family |-> "text", to |-> src,
          json |-> [type |-> "ack", seq |-> s]]

\* C2: every received datagram that decodes to a message carrying a sequence
\* number s makes the iteration send exactly one datagram, the acknowledgement
\* of s in the datagram's own family (binary or text) to the datagram's sender,
\* whether the message is fresh or a duplicate, and send it before any enigo
\* call the message causes.
C2_AckOnceFirst ==
    (IsRecv(last) /\ decoded_seq(last.dgram).some) =>
        /\ Len(io) >= 1
        /\ io[1] = AckOf(last.dgram, decoded_seq(last.dgram).v, last.src)
        /\ \A i \in 2..Len(io) : IsIntent(io[i])

\* C2 witness: a fresh reliable text Button was acknowledged and then pressed.
C2_Witness ==
    /\ IsRecv(last) /\ decoded_seq(last.dgram).some /\ ~last.duplicate
    /\ ~is_binary_datagram(last.dgram)
    /\ Len(io) = 2 /\ io[1].ev = "send_to" /\ io[2].ev = "key"

\* the units of silence that make up n seconds
Secs(n) == n * UnitsPerSec

AllReleased(s) ==
    /\ s.pressed_keys = {}
    /\ s.pressed_modifiers = NoModifiers
    /\ ~s.skill_center.some /\ ~s.active_skill.some

PongOf(d, src) ==
    IF is_binary_datagram(d)
    THEN [ev |-> "send_to", family |-> "binary", to |-> src,
          bytes |-> << MAGIC, MSG_PONG >> \o SubSeq(d.buf, 3, 10)]
    ELSE [ev |-> "send_to", family |-> "text", to |-> src,
          json |-> [type |-> "pong", timestamp |-> d.json.v.timestamp]]

\* what every Ping does, whoever sends it: one pong in the Ping's family with
\* the Ping's timestamp to its sender, no enigo call, InputState untouched
PingReplies ==
    /\ io' = << PongOf(last'.dgram, last'.src) >>
    /\ input_state' = Held(input_state)

\* C9 as stated: a Ping elicits exactly one Pong of its own family carrying its
\* timestamp, to its sender, makes no enigo call and leaves pressed_keys, the
\* held modifiers, the skill state and processed_seqs unchanged.
C9_Original ==
    [][ RecvType(last', "Ping") => (PingReplies /\ processed_seqs' = processed_seqs) ]_vars

\* C9 amended: as stated, except that processed_seqs is unchanged only when the
\* Ping comes from the active address; a Ping from another address (or with no
\* session active) starts a session like any datagram and leaves it empty.
C9_PingPong ==
    [][ RecvType(last', "Ping") =>
          /\ PingReplies
          /\ processed_seqs' = IF last_client = Some(last'.src) THEN processed_seqs
                               ELSE << >> ]_vars

\* C9 witness: a binary Ping from the active address was answered while a
\* sequence number was in the window.
C9_Witness ==
    /\ RecvType(last, "Ping") /\ is_binary_datagram(last.dgram) /\ ~last.new_session
    /\ processed_seqs # << >>
    /\ Len(io) = 1 /\ io[1].family = "binary"

\* a received datagram carrying sequence number s that was admitted earlier in
\* this session
Readmission(l) == IsRecv(l) /\ decoded_seq(l.dgram).some /\ l.prior

\* C1 as stated: once s was admitted in a session, every later datagram of the
\* session carrying s is a duplicate and makes no enigo call, however many
\* other sequence numbers were admitted in between.
C1_Original ==
    Readmission(last) => (last.duplicate /\ SinkIntents(io) = << >>)

\* C1 amended: ... provided fewer than MAX_PROCESSED_SEQS other sequence
\* numbers were admitted in the session since s was (s is still among the 100
\* most recently admitted); then the datagram is acknowledged and nothing else
\* happens.
C1_DuplicateInWindow ==
    (Readmission(last) /\ last.between < MAX_PROCESSED_SEQS) =>
        /\ last.duplicate
        /\ SinkIntents(io) = << >>
        /\ Len(io) = 1

\* C1 witness: sequence number 0 came again when MAX_PROCESSED_SEQS - 1 others
\* had been admitted after it, and was dropped as a duplicate.
C1_Witness ==
    /\ Readmission(last) /\ last.between = MAX_PROCESSED_SEQS - 1
    /\ decoded_seq(last.dgram).v = 0 /\ last.duplicate

\* the sequence number of a datagram admitted as fresh in a running session
AdmittedInSession(l) ==
    IsRecv(l) /\ decoded_seq(l.dgram).some /\ ~l.duplicate /\ ~l.new_session

\* C8: processed_seqs never holds more than MAX_PROCESSED_SEQS entries; a fresh
\* sequence number is appended, and when the window already holds
\* MAX_PROCESSED_SEQS entries exactly the front one (the earliest inserted) is
\* dropped and the others keep their order.
C8_WindowFifo ==
    [][ /\ Len(processed_seqs') <= MAX_PROCESSED_SEQS
        /\ AdmittedInSession(last') =>
             processed_seqs' =
                IF Len(processed_seqs) = MAX_PROCESSED_SEQS
                THEN Append(Tail(processed_seqs), decoded_seq(last'.dgram).v)
                ELSE Append(processed_seqs, decoded_seq(last'.dgram).v)
      ]_vars

\* C8 witness: the window is full and its first entry, sequence number 0, has
\* been evicted.
C8_Witness ==
    /\ AdmittedInSession(last)
    /\ Len(processed_seqs) = MAX_PROCESSED_SEQS
    /\ Len(session_log) = MAX_PROCESSED_SEQS + 1
    /\ processed_seqs = Tail(session_log)

\* the enigo call that presses or releases what identifier k resolves to
IntentFor(k, direction) ==
    LET parsed == parse_key(k).v IN
    IF parsed.kind = "Keyboard"
    THEN [ev |-> "key", key |-> parsed.key, dir |-> direction]
    ELSE [ev |-> "button", button |-> mouse_action_to_button(parsed.action).v,
          dir |-> direction]
\* how many times event e occurs in log
Count(log, e) == Cardinality({i \in DOMAIN log : log[i] = e})
\* identifiers that resolve to a keyboard key or a clickable mouse button
Holdable(k) ==
    /\ parse_key(k).some
    /\ parse_key(k).v.kind = "Mouse" => mouse_action_to_button(parse_key(k).v.action).some
\* l is a received Button message for identifier k with this pressed flag
ButtonRecv(l, k, pressed) ==
    /\ RecvType(l, "Button") /\ ~l.duplicate
    /\ to_lowercase(RecvMsg(l).v.key) = k /\ RecvMsg(l).v.pressed = pressed
\* the identifiers of the Button messages offered
OfferedButtons ==
    {to_lowercase(decoded_msg(d).v.key) :
        d \in {o \in Offered : decoded_msg(o).some /\ decoded_msg(o).v.type = "Button"}}

\* C4 as stated: two consecutive Button presses of an identifier that was not
\* held emit exactly one press intent for it in total, and a Button release of
\* a held identifier emits exactly one release intent and removes it from
\* pressed_keys.
C4_Original ==
    [][ \A k \in OfferedButtons : Holdable(k) =>
          /\ (/\ ButtonRecv(last, k, TRUE) /\ k \notin last.pre_keys
              /\ ButtonRecv(last', k, TRUE))
               => Count(io, IntentFor(k, "Press")) + Count(io', IntentFor(k, "Press")) = 1
          /\ (ButtonRecv(last', k, FALSE) /\ k \in input_state.pressed_keys)
               => /\ Count(io', IntentFor(k, "Release")) = 1
                  /\ k \notin input_state'.pressed_keys
      ]_vars

\* the four directional identifiers, in the order handle_joystick updates them
Directional == << 97, 100, 119, 115 >>
DirectionalIds == {<< Directional[i] >> : i \in DOMAIN Directional}
\* l is a received Joystick message inside the deadzone on both axes
DeadzoneRecv(l) ==
    /\ RecvType(l, "Joystick")
    /\ Abs(RecvMsg(l).v.x) * 5 < FUnit /\ Abs(RecvMsg(l).v.y) * 5 < FUnit
\* the release intents of the directional identifiers in keys
DirectionalReleases(keys) ==
    LET rel(c) == IF << c >> \in keys
                  THEN << [ev |-> "key", key |-> [name |-> "Unicode", c |-> c],
                           dir |-> "Release"] >>
                  ELSE << >>
    IN  rel(97) \o rel(100) \o rel(119) \o rel(115)

\* C5 as stated: a Joystick message with |x| < 0.2 and |y| < 0.2 emits neither
\* a press nor a release for a, d, w, s and leaves their membership in
\* pressed_keys unchanged.
C5_Original ==
    [][ DeadzoneRecv(last') =>
          /\ \A k \in DirectionalIds :
                /\ Count(io', IntentFor(k, "Press")) = 0
                /\ Count(io', IntentFor(k, "Release")) = 0
          /\ input_state'.pressed_keys \cap DirectionalIds
                = input_state.pressed_keys \cap DirectionalIds
      ]_vars

\* C5 amended: a Joystick message with |x| < 0.2 and |y| < 0.2 emits no press;
\* it emits exactly one release for each of a, d, w, s that is in pressed_keys
\* and removes those from pressed_keys, and makes no other call and no other
\* change; with none of them held it emits nothing and changes nothing.
C5_DeadzoneReleases ==
    [][ DeadzoneRecv(last') =>
          /\ io' = DirectionalReleases(input_state.pressed_keys)
          /\ Held(input_state') =
                [Held(input_state) EXCEPT !.pressed_keys = @ \ DirectionalIds]
      ]_vars

\* C5 witness: a deadzone Joystick message arrived while d and s were held and
\* released both.
C5_Witness ==
    /\ DeadzoneRecv(last)
    /\ last.pre_keys \cap DirectionalIds = {<< 100 >>, << 115 >>}
    /\ Len(io) = 2
    /\ input_state.pressed_keys \cap DirectionalIds = {}

\* the enigo calls of a skill release at (dx, dy) around center c
MoveTo(x, y) == [ev |-> "move_mouse", x |-> x, y |-> y]
LeftButton(direction) == [ev |-> "button", button |-> "Left", dir |-> direction]
\* v * 800 as whole pixels, for v with v * 800 a whole number
Pixels(v) == (v * SKILL_MOUSE_RADIUS) \div FUnit

\* C6: when a SkillStart with offset (ox, oy) is handled with no cast active and
\* the next datagram is a SkillRelease with (dx, dy), the release makes exactly
\* these enigo calls, in order: move to center + (dx*800, dy*800), press Left,
\* release Left, move to center, where center is the display center found when
\* the SkillStart was handled plus (ox, oy); afterwards skill_center and
\* active_skill are None.
C6_StartThenRelease ==
    [][ (/\ RecvType(last, "SkillStart") /\ ~last.pre_skill.some
         /\ RecvType(last', "SkillRelease") /\ ~last'.duplicate)
        => LET start == RecvMsg(last).v
               rel == RecvMsg(last').v
               cx == last.base_center[1] + start.offset_x
               cy == last.base_center[2] + start.offset_y
           IN  /\ io' = << MoveTo(cx + Pixels(rel.dx), cy + Pixels(rel.dy)),
                           LeftButton("Press"), LeftButton("Release"),
                           MoveTo(cx, cy) >>
               /\ input_state'.skill_center = None
               /\ input_state'.active_skill = None
      ]_vars

\* C6 witness: a cast started with offset (10, -20) while the pointer was on the
\* left monitor was released at (-0.125, 0.5) while the pointer was on the
\* primary one.
C6_Witness ==
    /\ RecvType(last, "SkillRelease")
    /\ last.pre_skill = Some(<< center(LeftOf)[1] + 10, center(LeftOf)[2] - 20 >>)
    /\ last.base_center = center(Primary)
    /\ io = << MoveTo(center(LeftOf)[1] + 10 - 100, center(LeftOf)[2] - 20 + 400),
               LeftButton("Press"), LeftButton("Release"),
               MoveTo(center(LeftOf)[1] + 10, center(LeftOf)[2] - 20) >>
    /\ input_state.skill_center = None

\* C7: a SkillCancel handled while skill_center is None makes no enigo call and
\* changes nothing of the InputState (no cast, the same pressed_keys and
\* pressed_modifiers), so any number of them in a row leave the state of one.
C7_IdleCancel ==
    [][ (/\ RecvType(last', "SkillCancel") /\ ~last'.duplicate
         /\ ~input_state.skill_center.some)
        => /\ io' = << >>
           /\ Held(input_state') = Held(input_state)
           /\ input_state'.skill_center = None /\ input_state'.active_skill = None
      ]_vars

\* C7 witness: a SkillCancel arrived with no cast active while a key and a
\* modifier were held, and nothing happened.
C7_Witness ==
    /\ RecvType(last, "SkillCancel") /\ ~last.pre_skill.some
    /\ io = << >>
    /\ input_state.pressed_keys # {}
    /\ input_state.pressed_modifiers.shift
    /\ ~input_state.skill_center.some

\* C10 as stated: for a single-character key k and a pressed flag p the legacy
\* frame [MAGIC, MSG_BUTTON, k, p] and the length-prefixed frame
\* [MAGIC, MSG_BUTTON, 1, k, p, 0] both decode to Button{key k, pressed p,
\* modifiers None, seq None}.
C10_Original ==
    \A k \in CodecKeys, p \in {0, 1} :
        (/\ IsRecv(last)
         /\ last.dgram \in {Binary(LegacyButtonFrame(k, p)),
                            Binary(ButtonFrame(<< k >>, p, 0))})
        => /\ RecvMsg(last) = Some(Button(<< k >>, p = 1, None, None))
           /\ decoded_seq(last.dgram) = None

\* C11: a datagram from an address other than last_client (another address, or
\* any address when last_client is None, initially or after a timeout) makes
\* its sender last_client and clears processed_seqs before the datagram is
\* handled, so that processed_seqs then holds at most the datagram's own
\* sequence number; hence whenever an address is active every entry of
\* processed_seqs was admitted from that address since it became active.
C11_Takeover ==
    [][ /\ IsRecv(last') =>
             /\ last_client' = Some(last'.src)
             /\ last'.new_session = (last_client # Some(last'.src))
             /\ last'.new_session =>
                  processed_seqs' = IF decoded_seq(last'.dgram).some
                                    THEN << decoded_seq(last'.dgram).v >> ELSE << >>
        /\ last_client'.some =>
             /\ Len(window_src') = Len(processed_seqs')
             /\ \A i \in DOMAIN window_src' : window_src'[i] = last_client'.v
      ]_vars

\* C11 witness: sequence number 0 had been admitted before; while one address
\* was active the other sent a datagram carrying 0, took over and had it
\* admitted as fresh into the cleared window.
C11_Witness ==
    /\ IsRecv(last) /\ last.new_session /\ last.had_client
    /\ decoded_seq(last.dgram) = Some(0) /\ ~last.duplicate
    /\ last.src = "10.0.0.2:5000"
    /\ processed_seqs = << 0 >> /\ window_src = << "10.0.0.2:5000" >>
    /\ peer_seq >= 1

\* the modifier flags and the enigo key of each
ModifierKeys ==
    { << "shift", "Shift" >>, << "control", "Control" >>, << "alt", "Alt" >>,
      << "command", "Meta" >> }
ModifierIntent(name, direction) ==
    [ev |-> "key", key |-> [name |-> name, c |-> 0], dir |-> direction]
\* the release_all of the timeout path ran in the step to l
ReleaseAllRan(l) == IsTick(l) /\ l.released

\* C12: after release_all pressed_keys is empty, the four pressed_modifiers
\* flags are false and skill_center and active_skill are None; release_all
\* makes exactly one release call for each identifier that was in pressed_keys
\* and one for each modifier flag that was set, no other call (no press, click,
\* scroll or pointer move), and no call at all when nothing was held.
C12_ReleaseAll ==
    [][ ReleaseAllRan(last') =>
          /\ AllReleased(input_state')
          /\ \A i \in DOMAIN io' : io'[i].ev \in {"key", "button"} /\ io'[i].dir = "Release"
          /\ Len(io') = Cardinality(input_state.pressed_keys)
                        + Cardinality({m \in ModifierKeys : input_state.pressed_modifiers[m[1]]})
          /\ \A k \in input_state.pressed_keys :
                Count(io', IntentFor(k, "Release")) =
                   Cardinality({j \in input_state.pressed_keys :
                                   IntentFor(j, "Release") = IntentFor(k, "Release")})
          /\ \A m \in ModifierKeys :
                Count(io', ModifierIntent(m[2], "Release")) =
                   IF input_state.pressed_modifiers[m[1]] THEN 1 ELSE 0
      ]_vars

\* C12 witness: release_all ran with q, mouse_left, d and s held, shift and
\* control down and a cast active, and made six release calls.
C12_Witness ==
    /\ ReleaseAllRan(last)
    /\ Cardinality(last.pre_keys) = 4 /\ K_mouse_left \in last.pre_keys
    /\ last.pre_skill.some
    /\ Len(io) = 6
    /\ AllReleased(input_state)

\* C13: a datagram that does not decode to a message (empty, magic first but
\* a type code that is no request, the reply codes MSG_PONG and MSG_ACK
\* included, shorter than the minimum of its type, or not valid JSON) is
\* answered with no datagram, makes no enigo call and leaves pressed_keys,
\* pressed_modifiers and the skill state unchanged.
C13_DroppedSilently ==
    [][ /\ (IsRecv(last') /\ last'.dgram \in Undecodable) => ~RecvMsg(last').some
        /\ (IsRecv(last') /\ ~RecvMsg(last').some) =>
              /\ io' = << >>
              /\ Held(input_state') = Held(input_state)
      ]_vars

\* C13 witness: a well-formed Pong frame arrived while q and shift were held
\* and a cast was active, and nothing happened.
C13_Witness ==
    /\ IsRecv(last)
    /\ last.dgram = Binary(<< MAGIC, MSG_PONG >> \o u64_to_le_bytes(42))
    /\ ~RecvMsg(last).some
    /\ io = << >>
    /\ input_state.pressed_keys = {K_q}
    /\ input_state.pressed_modifiers.shift
    /\ input_state.skill_center.some

MessageTypes ==
    {"Joystick", "Button", "SkillStart", "SkillDrag", "SkillRelease", "SkillCancel",
     "Ping"}

\* C14: for every byte buffer, of length 0 and 1 too, parse_binary_message
\* reads only indices below the length of the buffer (every length check
\* covers the reads of its branch) and returns a message or None.
C14_ReadsInBounds ==
    last.kind = "parsed" =>
        /\ \A i \in last.reads : 0 <= i /\ i < Len(last.buf)
        /\ \/ last.result = None
           \/ last.result.v[1].type \in MessageTypes

\* C14 witness: a reliable Button frame with key_len 2 and exactly the eleven
\* bytes it needs was decoded, reading every byte of it.
C14_Witness ==
    /\ last.kind = "parsed"
    /\ last.buf = Buffer(MSG_RELIABLE_BUTTON, 11, 2)
    /\ last.reads = 0..10
    /\ last.result.some /\ Len(last.result.v[1].key) = 2

\* a polling tick found a session active
SessionTick(l) == IsTick(l) /\ l.had_client

C16_IdleDragRelease ==
    [][ (/\ RecvType(last', "SkillDrag") \/ RecvType(last', "SkillRelease")
         /\ ~last'.duplicate
         /\ ~input_state.skill_center.some)
        => /\ SinkIntents(io') = << >>
           /\ Held(input_state') = Held(input_state)
           /\ ~input_state'.skill_center.some /\ ~input_state'.active_skill.some
      ]_vars

\* C16 witness: a smoothed SkillDrag arrived with no cast active while q and
\* shift were held, and nothing happened.
C16_Witness ==
    /\ RecvType(last, "SkillDrag") /\ RecvMsg(last).v.smooth /\ RecvMsg(last).v.dx # 0
    /\ ~last.pre_skill.some
    /\ io = << >>
    /\ input_state.pressed_keys = {K_q} /\ input_state.pressed_modifiers.shift
    /\ ~input_state.skill_center.some

\* the two identifiers that resolve to a scroll action
ScrollIds == {K_scroll_up, K_scroll_down}
ScrollIntent(k) ==
    [ev |-> "scroll", length |-> IF k = K_scroll_up THEN 2 ELSE 0 - 2]
\* the modifiers member of a received message names flag f
Names(l, f) == RecvMsg(l).v.modifiers.some /\ RecvMsg(l).v.modifiers.v[f]
ScrollNeverHeld == input_state.pressed_keys \cap ScrollIds = {}

\* C17 as stated: pressed_keys never holds scroll_up or scroll_down; a Button
\* press naming a scroll action makes exactly one scroll call and no key or
\* button press call; a Button release naming a scroll action makes no call
\* for that action.
C17_Original ==
    /\ []ScrollNeverHeld
    /\ [][ \A k \in ScrollIds :
            /\ ButtonRecv(last', k, TRUE) =>
                  /\ Count(io', ScrollIntent(k)) = 1
                  /\ \A i \in DOMAIN io' :
                        \/ io'[i] = ScrollIntent(k)
                        \/ io'[i].ev \in {"key", "button"} /\ io'[i].dir # "Press"
            /\ ButtonRecv(last', k, FALSE) =>
                  \A i \in DOMAIN io' : io'[i].ev \notin {"scroll", "button"}
         ]_vars

\* C17: pressed_keys never holds scroll_up or scroll_down. A Button press
\* naming a scroll action makes exactly one scroll call, of 2 for scroll_up
\* and -2 for scroll_down, no button call, and no key call other than the
\* press of each modifier the message names that was not held, all before
\* the scroll; a Button release naming a scroll action makes no scroll and no
\* button call, only the release of each named modifier that was held;
\* neither changes pressed_keys.
C17_ScrollFiredNotHeld ==
    /\ []ScrollNeverHeld
    /\ [][ \A k \in ScrollIds, pressed \in BOOLEAN :
            ButtonRecv(last', k, pressed) =>
              LET named == {m \in ModifierKeys :
                              /\ Names(last', m[1])
                              /\ input_state.pressed_modifiers[m[1]] # pressed}
                  dir == IF pressed THEN "Press" ELSE "Release"
              IN  /\ Len(io') = Cardinality(named) + (IF pressed THEN 1 ELSE 0)
                  /\ \A m \in named : Count(io', ModifierIntent(m[2], dir)) = 1
                  /\ pressed => io'[Len(io')] = ScrollIntent(k)
                  /\ input_state'.pressed_keys = input_state.pressed_keys
         ]_vars

\* C17 witness: a Button press of scroll_down naming shift arrived while q was
\* held and shift was up: shift was pressed, the wheel scrolled by -2, and
\* pressed_keys still holds q only.
C17_Witness ==
    /\ ButtonRecv(last, K_scroll_down, TRUE)
    /\ io = << ModifierIntent("Shift", "Press"), ScrollIntent(K_scroll_down) >>
    /\ input_state.pressed_keys = {K_q}

\* l is a received SkillRelease or SkillCancel that was dispatched
EndsCast(l) ==
    /\ RecvType(l, "SkillRelease") \/ RecvType(l, "SkillCancel")
    /\ ~l.duplicate

\* C18 as stated: once handle_skill_start stored active_skill = Some(k), the
\* cast (skill_center and active_skill) stays until a SkillRelease or
\* SkillCancel whose key is k is handled or release_all runs; a SkillRelease
\* or SkillCancel with another key leaves skill_center and active_skill as
\* they were and makes no Left button call.
C18_Original ==
    [][ input_state.active_skill.some =>
          /\ ~input_state'.active_skill.some =>
                \/ ReleaseAllRan(last')
                \/ EndsCast(last') /\ RecvMsg(last').v.key = input_state.active_skill.v
          /\ (EndsCast(last') /\ RecvMsg(last').v.key # input_state.active_skill.v) =>
                /\ input_state'.active_skill = input_state.active_skill
                /\ input_state'.skill_center = input_state.skill_center
                /\ \A i \in DOMAIN io' : io'[i].ev # "button"
      ]_vars

\* the modifiers member of a received message is Some and not empty
NamesModifiers(l) == RecvMsg(l).v.modifiers.some /\ ~is_empty(RecvMsg(l).v.modifiers.v)
\* the positions of log holding a call of this direction for a modifier key
ModifierCalls(log, direction) ==
    {i \in DOMAIN log : \E m \in ModifierKeys : log[i] = ModifierIntent(m[2], direction)}

\* C19: a Button message with a non-empty modifiers member and a key that
\* parse_key resolves to a keyboard key or a mouse button: on press the call
\* pressing the key or button is the last call of the iteration and every call
\* before it presses a modifier, one call for each named modifier that was not
\* held; on release the call releasing the key or button is the first call and
\* every call after it releases a modifier, one call for each named modifier
\* that was held.
C19_ModifiersAround ==
    [][ \A k \in OfferedButtons, pressed \in BOOLEAN :
          (ButtonRecv(last', k, pressed) /\ Holdable(k) /\ NamesModifiers(last')) =>
            LET dir == IF pressed THEN "Press" ELSE "Release"
                named == {m \in ModifierKeys :
                            /\ Names(last', m[1])
                            /\ input_state.pressed_modifiers[m[1]] # pressed}
                at == IF pressed THEN Len(io') ELSE 1
            IN  /\ Len(io') = Cardinality(named) + 1
                /\ io'[at] = IntentFor(k, dir)
                /\ ModifierCalls(io', dir) = DOMAIN io' \ {at}
                /\ \A m \in named : Count(io', ModifierIntent(m[2], dir)) = 1
                /\ \A i \in ModifierCalls(io', dir) : IF pressed THEN i < at ELSE i > at
      ]_vars

\* C19 witness: a Button release of Q naming shift and control arrived while
\* both were held: q was released first, then shift, then control.
C19_Witness ==
    /\ ButtonRecv(last, K_q, FALSE) /\ NamesModifiers(last)
    /\ io = << IntentFor(K_q, "Release"), ModifierIntent("Shift", "Release"),
               ModifierIntent("Control", "Release") >>
    /\ K_mouse_left \in input_state.pressed_keys

\* the calls of this direction for the modifiers of set, in the order
\* update_modifiers makes them
ModifierOrder ==
    << << "shift", "Shift" >>, << "control", "Control" >>, << "alt", "Alt" >>,
       << "command", "Meta" >> >>
ModifierSeq(set, direction) ==
    LET F[i \in 0..4] ==
          IF i = 0 THEN << >>
          ELSE IF ModifierOrder[i] \in set
               THEN Append(F[i - 1], ModifierIntent(ModifierOrder[i][2], direction))
               ELSE F[i - 1]
    IN  F[4]
\* the modifiers a received message names
NamedModifiers(l) == {m \in ModifierKeys : Names(l, m[1])}
\* the cast center of a received SkillStart
CastCenter(l) ==
    << l.base_center[1] + RecvMsg(l).v.offset_x, l.base_center[2] + RecvMsg(l).v.offset_y >>
\* the InputState is in a cast of key around center c, the smoothed positions on c
CastAt(s, key, c) ==
    /\ s.skill_center = Some(c) /\ s.active_skill = Some(key)
    /\ s.current_mouse_x = c[1] * FUnit /\ s.current_mouse_y = c[2] * FUnit
    /\ s.target_mouse_x = c[1] * FUnit /\ s.target_mouse_y = c[2] * FUnit
\* the call that clicks identifier k, if any
ClickOf(k) ==
    IF Holdable(k) THEN << IntentFor(k, "Click") >>
    ELSE IF to_lowercase(k) \in ScrollIds THEN << ScrollIntent(to_lowercase(k)) >>
    ELSE << >>

Active(s) == s.skill_center.some /\ s.active_skill.some
\* l is a received SkillStart that was dispatched
StartsCast(l) == RecvType(l, "SkillStart") /\ ~l.duplicate
CenterAndKeyTogether == input_state.skill_center.some <=> input_state.active_skill.some

\* C21: skill_center and active_skill are always both Some or both None. They
\* are Some exactly when the last handled event among SkillStart, SkillRelease,
\* SkillCancel and release_all was a SkillStart: a dispatched SkillStart makes
\* them Some, a dispatched SkillRelease or SkillCancel and release_all make
\* them None, and every other step (a SkillDrag, any other message, a repeated
\* numbered message that is not dispatched, an undecodable datagram, a change
\* of controller, a tick without release) leaves them Some or None as they were.
C21_CastLifecycle ==
    /\ []CenterAndKeyTogether
    /\ [][ Active(input_state') <=>
             IF StartsCast(last') THEN TRUE
             ELSE IF EndsCast(last') \/ ReleaseAllRan(last') THEN FALSE
             ELSE Active(input_state)
         ]_vars

\* C21 witness: a SkillRelease whose number is still in processed_seqs arrived
\* during a cast and was not dispatched, so the cast goes on.
C21_Witness ==
    /\ RecvType(last, "SkillRelease") /\ last.duplicate
    /\ Active(input_state)
    /\ input_state.pressed_modifiers.shift

\* the frame has every byte of the layout of its reliable type code
LongEnough(buf) ==
    /\ Len(buf) >= 2 /\ B(buf, 0) = MAGIC
    /\ \/ B(buf, 1) = MSG_RELIABLE_BUTTON /\ Len(buf) >= 9 /\ Len(buf) >= 9 + B(buf, 6)
       \/ B(buf, 1) = MSG_RELIABLE_SKILL_RELEASE /\ Len(buf) >= 15
       \/ B(buf, 1) = MSG_RELIABLE_SKILL_CANCEL /\ Len(buf) >= 7

\* C22: parse_binary_message returns Some sequence number exactly for the
\* frames of type code 0x12, 0x15 or 0x16 that hold every byte of their
\* layout; the number is buf[2] + 2^8 buf[3] + 2^16 buf[4] + 2^24 buf[5], it
\* is the seq member of the message returned, and build_binary_ack of it is
\* the six bytes MAGIC, 0x09, buf[2], buf[3], buf[4], buf[5].
C22_BinarySeq ==
    /\ ReliableCodes = {18, 21, 22} /\ MSG_ACK = 9
    /\ last.kind \in {"parsed", "acked"} =>
         /\ (last.result.some /\ last.result.v[2].some) <=> LongEnough(last.buf)
         /\ LongEnough(last.buf) =>
              /\ last.result.v[2].v = B(last.buf, 2) + 256 * B(last.buf, 3)
                                      + 65536 * B(last.buf, 4) + 16777216 * B(last.buf, 5)
              /\ last.result.v[1].seq = last.result.v[2]
         /\ ~LongEnough(last.buf) /\ last.result.some =>
              \/ "seq" \notin DOMAIN last.result.v[1]
              \/ last.result.v[1].seq = None
    /\ last.kind = "acked" =>
         last.ack = << MAGIC, 9, B(last.buf, 2), B(last.buf, 3), B(last.buf, 4),
                       B(last.buf, 5) >>

\* C22 witness: the reliable SkillCancel frame numbered 0x04030201 was parsed
\* and acknowledged.
C22_Witness ==
    /\ last.kind = "acked"
    /\ last.buf = SeqBuffer(MSG_RELIABLE_SKILL_CANCEL, 7, << 1, 2, 3, 4 >>, 113)
    /\ last.result.v[2] = Some(67305985)
    /\ last.ack = << 171, 9, 1, 2, 3, 4 >>

\* C23: every datagram received sets last_heartbeat to now, whether it decodes
\* or not and whether its number is in processed_seqs or not: after the
\* iteration the time since last_heartbeat is the time the iteration took,
\* whatever it was before. A read timeout leaves last_heartbeat alone (the
\* time since it grows by the read timeout), decodes nothing, sends nothing
\* and records no number. release_all therefore runs only at a timeout at
\* which more than HEARTBEAT_TIMEOUT_SECS have passed since the last datagram,
\* never while datagrams come less than that apart.
C23_ContactRefresh ==
    [][ /\ IsRecv(last') => elapsed' \in env.busy
        /\ IsTick(last') =>
             /\ elapsed' = Min(elapsed + ReadTimeout, ElapsedCap)
             /\ Sends(io') = << >>
             /\ processed_seqs' = processed_seqs /\ peer_seq' = peer_seq
             /\ client_extreme_mode' = client_extreme_mode
             /\ ~last'.released => /\ io' = << >>
                                   /\ Held(input_state') = Held(input_state)
                                   /\ last_client' = last_client
        /\ ReleaseAllRan(last') => elapsed + ReadTimeout > Secs(HEARTBEAT_TIMEOUT_SECS)
      ]_vars

\* C23 witness: a datagram that is not a message arrived 3 seconds after the
\* one before it, while q was held; the session and the key are kept and the
\* time since last_heartbeat starts again.
C23_Witness ==
    /\ IsRecv(last) /\ ~RecvMsg(last).some
    /\ last.gap = Secs(HEARTBEAT_TIMEOUT_SECS)
    /\ last.had_client /\ ~last.new_session
    /\ elapsed \in env.busy
    /\ input_state.pressed_keys = {K_q}

\* l is a received SkillDrag handled during a cast, smoothed or not
DragInCast(l, smooth) ==
    /\ RecvType(l, "SkillDrag") /\ ~l.duplicate /\ l.pre_skill.some
    /\ RecvMsg(l).v.smooth = smooth

\* C24 as stated: during one cast, a SkillDrag that is not smoothed and the
\* SkillRelease that follows it with the same (dx, dy) move the pointer to the
\* same coordinates: the first call of the release is the call of the drag.
C24_Original ==
    [][ (/\ DragInCast(last, FALSE)
         /\ RecvType(last', "SkillRelease") /\ ~last'.duplicate
         /\ RecvMsg(last').v.dx = RecvMsg(last).v.dx
         /\ RecvMsg(last').v.dy = RecvMsg(last).v.dy)
        => io'[1] = io[1]
      ]_vars

\* the raw target of a received SkillDrag around center c, per axis
RawTarget(l, c) ==
    << c[1] * FUnit + RecvMsg(l).v.dx * SKILL_MOUSE_RADIUS,
       c[2] * FUnit + RecvMsg(l).v.dy * SKILL_MOUSE_RADIUS >>
\* (old current, new current, target) of each axis over a step
SmoothAxes(s, t, target) ==
    { << s.current_mouse_x, t.current_mouse_x, target[1] >>,
      << s.current_mouse_y, t.current_mouse_y, target[2] >> }

Tracked(s) ==
    {sink_id(IntentFor(k, "Press")) : k \in {h \in s.pressed_keys : Holdable(h)}}
      \cup {sink_id(ModifierIntent(m[2], "Press")) :
              m \in {n \in ModifierKeys : s.pressed_modifiers[n[1]]}}
NothingDownUntracked == sink_down \subseteq Tracked(input_state)

\* C26: when release_all has run, whatever Joystick, Button, SkillStart,
\* SkillDrag, SkillRelease and SkillCancel messages were handled before it
\* (two names of one key, a key named like a modifier, repeated presses), no
\* key and no mouse button is down: for each of them the last enigo call was
\* a Release or a Click. This is so because a key or button that is down is
\* always one that pressed_keys or pressed_modifiers stands for.
C26_AllUpAfterRelease ==
    /\ []NothingDownUntracked
    /\ [][ ReleaseAllRan(last') => sink_down' = {} ]_vars

\* C26 witness: release_all ran while esc, escape, shift, a and mouse_left
\* were in pressed_keys and Escape, Shift, a and the left button were down;
\* nothing is down afterwards.
C26_Witness ==
    /\ ReleaseAllRan(last)
    /\ last.pre_keys = {K_esc, K_escape, K_shift, K_a, K_mouse_left}
    /\ Len(io) >= 5
    /\ sink_down = {}

\* C27 as stated: every identifier in pressed_keys resolves to a keyboard key
\* or mouse button that is down: the last Press or Release call made for that
\* key or button was a Press.
C27_Original ==
    \A k \in input_state.pressed_keys :
        Holdable(k) /\ sink_id(IntentFor(k, "Press")) \in sink_down

\* C28 as stated: a Joystick message makes no Release call for, and does not
\* remove from pressed_keys, an identifier pressed by a Button message, the
\* identifiers a, d, w and s included. (The only Joystick message offered is
\* the rest position, which presses nothing: every identifier in pressed_keys
\* was pressed by a Button message.)
C28_Original ==
    [][ (RecvType(last', "Joystick") /\ ~last'.duplicate) =>
          \A k \in input_state.pressed_keys :
             /\ k \in input_state'.pressed_keys
             /\ Count(io', IntentFor(k, "Release")) = 0
      ]_vars

\* C29 as stated: a SkillStart leaves pressed_keys and the four
\* pressed_modifiers flags as they were, also when a modifier it names is held
\* because of an earlier Button press, and makes as many Press calls as
\* Release calls for each modifier.
C29_Original ==
    [][ StartsCast(last') =>
          /\ input_state'.pressed_keys = input_state.pressed_keys
          /\ input_state'.pressed_modifiers = input_state.pressed_modifiers
          /\ \A m \in ModifierKeys :
                Count(io', ModifierIntent(m[2], "Press"))
                   = Count(io', ModifierIntent(m[2], "Release"))
      ]_vars

\* l is a datagram from an address other than the active one, received while
\* a session was active
Takeover(l) == IsRecv(l) /\ l.new_session /\ l.had_client

\* C30: a datagram from a new address during a session makes the sender the
\* active controller and nothing more: if it carries no input message (it is
\* undecodable or a Ping) the iteration makes no enigo call and leaves
\* pressed_keys, pressed_modifiers, the cast and the keys that are down as
\* they were; if it carries one, nothing but that message's own handler acts:
\* no identifier leaves pressed_keys unless the message is a Button or a
\* Joystick, and the cast ends only if the message is a SkillRelease or a
\* SkillCancel.
C30_TakeoverKeepsInputs ==
    [][ Takeover(last') =>
          /\ last_client' = Some(last'.src)
          /\ (~RecvMsg(last').some \/ RecvType(last', "Ping")) =>
                /\ SinkIntents(io') = << >>
                /\ Held(input_state') = Held(input_state)
                /\ sink_down' = sink_down
          /\ \/ input_state.pressed_keys \subseteq input_state'.pressed_keys
             \/ RecvType(last', "Button") \/ RecvType(last', "Joystick")
          /\ (Active(input_state) /\ ~Active(input_state')) => EndsCast(last')
          /\ \A m \in ModifierKeys :
                (input_state.pressed_modifiers[m[1]] /\ ~input_state'.pressed_modifiers[m[1]])
                   => Names(last', m[1])
      ]_vars

\* C30 witness: a second controller sent an undecodable datagram while the
\* first one's Q, shift and cast were held; it is the active controller now
\* and all three are still held.
C30_Witness ==
    /\ Takeover(last) /\ ~RecvMsg(last).some
    /\ last_client = Some("10.0.0.2:5000")
    /\ input_state.pressed_keys = {K_q} /\ input_state.pressed_modifiers.shift
    /\ Active(input_state)
    /\ Cardinality(sink_down) = 2

====
